---- MODULE Spec2Model ----
(***************************************************************************)
(* Model of the annotation pipeline of auto-annotation-api:                *)
(* services.AnnotationService over the "annotations" collection, the PDF   *)
(* text extractor, the Ollama response parser and the AWS (Polly + S3)     *)
(* publisher; the router with its middleware and handlers, the user        *)
(* accounts, and the registry of streaming subscribers.                    *)
(*                                                                         *)
(* Strings are sequences of fragments.  Text that is parsed (PDF page      *)
(* text, model responses) is written character by character, so that      *)
(* trimming, splitting and prefix tests work as in Go; fixed message       *)
(* parts are fragments, cut so that the words a handler searches an error  *)
(* for ("not found", "not configured") are fragments of their own.  The    *)
(* empty string is << >>, and a nil error is the empty string.             *)
(***************************************************************************)
EXTENDS Integers, Sequences, FiniteSets, TLC

----------------------------------------------------------------------------
(* Bounds *)

MaxAnnotations == 2    \* documents created in one behaviour
MaxTime == 1           \* the clock stops advancing here
TicksPerSecond == 1    \* clock ticks per Unix second
NumProcs == 1          \* generateSpeech requests that may be in flight
MaxCalls == 3          \* calls of the service made in one behaviour
NumClients == 2        \* Register or update calls that may be in flight
MaxUsers == 2          \* users registered in one behaviour
TokenTTL == 1          \* ticks a session token stays valid (24 hours)
MaxLines == 3          \* lines of a model response given to the parser
MaxRequests == 2       \* requests sent to the router in one behaviour
MaxPages == 3          \* pages of a PDF given to the extractor
NumSubs == 2           \* SSE connections to the topic in one behaviour
NumSenders == 1        \* sendEvent calls that may be in flight
MaxPending == 2        \* "go RemoveClient" goroutines waiting per channel

\* The buffer of a subscriber channel: make(chan StreamEvent, 10)
ChanCap == 10

----------------------------------------------------------------------------
(* Go's strings package, on sequences *)

IsSpace(c) == c \in {" ", "\t", "\n", "\r", "\f"}

RECURSIVE TrimLeftSpace(_)
TrimLeftSpace(s) ==
    IF s = << >> THEN << >>
    ELSE IF IsSpace(Head(s)) THEN TrimLeftSpace(Tail(s)) ELSE s

RECURSIVE TrimRightSpace(_)
TrimRightSpace(s) ==
    IF s = << >> THEN << >>
    ELSE IF IsSpace(s[Len(s)]) THEN TrimRightSpace(SubSeq(s, 1, Len(s) - 1))
    ELSE s

TrimSpace(s) == TrimRightSpace(TrimLeftSpace(s))

HasPrefix(s, p) == Len(s) >= Len(p) /\ SubSeq(s, 1, Len(p)) = p

TrimPrefix(s, p) == IF HasPrefix(s, p) THEN SubSeq(s, Len(p) + 1, Len(s)) ELSE s

\* strings.Contains: p occurs in s as a contiguous run
Contains(s, p) ==
    \E i \in 0..(Len(s) - Len(p)) : SubSeq(s, i + 1, i + Len(p)) = p

\* strings.ReplaceAll(s, old, new) for a non-empty old: leftmost,
\* non-overlapping occurrences
RECURSIVE ReplaceAll(_, _, _)
ReplaceAll(s, old, new) ==
    IF Len(s) < Len(old) THEN s
    ELSE IF HasPrefix(s, old)
         THEN new \o ReplaceAll(SubSeq(s, Len(old) + 1, Len(s)), old, new)
         ELSE <<Head(s)>> \o ReplaceAll(Tail(s), old, new)

\* strings.Split(s, sep) for a one-character sep; Split("", sep) is [""]
RECURSIVE SplitFrom(_, _, _)
SplitFrom(s, sep, cur) ==
    IF s = << >> THEN <<cur>>
    ELSE IF Head(s) = sep THEN <<cur>> \o SplitFrom(Tail(s), sep, << >>)
    ELSE SplitFrom(Tail(s), sep, Append(cur, Head(s)))

Split(s, sep) == SplitFrom(s, sep, << >>)

RECURSIVE Join(_, _)
Join(parts, sep) ==
    IF parts = << >> THEN << >>
    ELSE IF Len(parts) = 1 THEN parts[1]
    ELSE parts[1] \o <<sep>> \o Join(Tail(parts), sep)

\* strings.ToLower on the file type tags the model uses
ToLower(t) ==
    CASE t = "PDF" -> "pdf"
      [] t = ".PDF" -> ".pdf"
      [] OTHER -> t

\* fmt.Sprintf("%d", n) for the small numbers of the model
Digits(n) == <<ToString(n)>>

----------------------------------------------------------------------------
(* Text extractor: services/pdf_parser.go *)

PageMarker(pageIndex) ==
    <<"\n", "\n", "-", "-", "-", " ", "P", "a", "g", "e", " ">>
        \o Digits(pageIndex) \o <<" ", "-", "-", "-", "\n", "\n">>

RECURSIVE DropBlankLines(_)
DropBlankLines(lines) ==
    IF lines = << >> THEN << >>
    ELSE LET line == TrimSpace(Head(lines))
         IN  IF line # << >> THEN <<line>> \o DropBlankLines(Tail(lines))
             ELSE DropBlankLines(Tail(lines))

RECURSIVE CollapseSpaces(_)
CollapseSpaces(s) ==
    IF Contains(s, <<" ", " ">>)
    THEN CollapseSpaces(ReplaceAll(s, <<" ", " ">>, <<" ">>))
    ELSE s

cleanExtractedText(text) ==
    LET t1 == ReplaceAll(text, <<"\r", "\n">>, <<"\n">>)
        t2 == ReplaceAll(t1, <<"\r">>, <<"\n">>)
        cleanLines == DropBlankLines(Split(t2, "\n"))
        result == CollapseSpaces(Join(cleanLines, "\n"))
    IN  TrimSpace(result)

\* The loop over the pages: a null page or a page whose text cannot be read
\* is skipped; every other page after the first is preceded by its marker.
RECURSIVE BuildText(_, _)
BuildText(pages, pageIndex) ==
    IF pageIndex > Len(pages) THEN << >>
    ELSE LET page == pages[pageIndex]
         IN  IF page.kind # "text" THEN BuildText(pages, pageIndex + 1)
             ELSE (IF pageIndex > 1 THEN PageMarker(pageIndex) ELSE << >>)
                      \o page.text \o BuildText(pages, pageIndex + 1)

\* A document is [readable, parsable, pages]; the result is [text, err].
ExtractTextFromReader(doc) ==
    IF ~doc.readable
    THEN [text |-> << >>, err |-> <<"failed to read PDF data: ", "unexpected EOF">>]
    ELSE IF ~doc.parsable
    THEN [text |-> << >>, err |-> <<"failed to parse PDF: ", "not a PDF file">>]
    ELSE LET extractedText == cleanExtractedText(BuildText(doc.pages, 1))
         IN  IF extractedText = << >>
             THEN [text |-> << >>, err |-> <<"no text content found in PDF">>]
             ELSE [text |-> extractedText, err |-> << >>]

GetParser(fileType) ==
    IF ToLower(fileType) \in {"pdf", ".pdf"} THEN "PDFParser" ELSE "nil"

extractTextFromStream(doc, fileType) ==
    IF GetParser(fileType) = "nil"
    THEN [text |-> << >>, err |-> <<"unsupported file type: ", fileType>>]
    ELSE ExtractTextFromReader(doc)

----------------------------------------------------------------------------
(* Annotation generator: services/ollama_client.go *)

GenrePrefix == <<"G", "E", "N", "R", "E", ":">>
DefaultGenre == <<"O", "t", "h", "e", "r">>

\* parseAnnotationResponse without the default genre
parseAnnotationResponse_NoDefault(response) ==
    LET lines == Split(response, "\n")
        tagged == Len(lines) > 0 /\ HasPrefix(TrimSpace(lines[1]), GenrePrefix)
        genre == IF tagged
                 THEN TrimSpace(TrimPrefix(TrimSpace(lines[1]), GenrePrefix))
                 ELSE << >>
        body == IF tagged
                THEN (IF Len(lines) > 1
                      THEN TrimSpace(Join(Tail(lines), "\n"))
                      ELSE << >>)
                ELSE response
    IN  [Genre |-> genre,
         Annotation |-> IF body = << >> THEN response ELSE body]

\* parseAnnotationResponse that takes the prefix in either case
parseAnnotationResponse_AnyCase(response) ==
    LET lines == Split(response, "\n")
        lower == <<"g", "e", "n", "r", "e", ":">>
        first == IF Len(lines) > 0 THEN TrimSpace(lines[1]) ELSE << >>
        tagged == HasPrefix(first, GenrePrefix) \/ HasPrefix(first, lower)
        genre == IF tagged
                 THEN TrimSpace(SubSeq(first, Len(GenrePrefix) + 1, Len(first)))
                 ELSE DefaultGenre
        body == IF tagged
                THEN (IF Len(lines) > 1
                      THEN TrimSpace(Join(Tail(lines), "\n"))
                      ELSE << >>)
                ELSE response
    IN  [Genre |-> genre,
         Annotation |-> IF body = << >> THEN response ELSE body]

parseAnnotationResponse(response) ==
    LET lines == Split(response, "\n")
        tagged == Len(lines) > 0 /\ HasPrefix(TrimSpace(lines[1]), GenrePrefix)
        genre == IF tagged
                 THEN TrimSpace(TrimPrefix(TrimSpace(lines[1]), GenrePrefix))
                 ELSE DefaultGenre
        body == IF tagged
                THEN (IF Len(lines) > 1
                      THEN TrimSpace(Join(Tail(lines), "\n"))
                      ELSE << >>)
                ELSE response
    IN  [Genre |-> genre,
         Annotation |-> IF body = << >> THEN response ELSE body]

\* The reply of the model server is the environment's choice:
\*   [kind |-> "transport"]             the POST fails
\*   [kind |-> "status", body]          a reply with a status other than 200
\*   [kind |-> "badjson"]               a 200 reply that is not JSON
\*   [kind |-> "ok", response]          a 200 reply carrying response
GenerateAnnotationWithGenre(reply) ==
    CASE reply.kind = "transport" ->
           [ok |-> FALSE, Genre |-> << >>, Annotation |-> << >>,
            err |-> <<"failed to make request to Ollama: ", "connection refused">>]
      [] reply.kind = "status" ->
           [ok |-> FALSE, Genre |-> << >>, Annotation |-> << >>,
            err |-> <<"Ollama API error (status ", "500", "): ">> \o reply.body]
      [] reply.kind = "badjson" ->
           [ok |-> FALSE, Genre |-> << >>, Annotation |-> << >>,
            err |-> <<"failed to unmarshal response: ", "invalid character">>]
      [] OTHER ->
           LET responseText == TrimSpace(reply.response)
           IN  IF responseText = << >>
               THEN [ok |-> FALSE, Genre |-> << >>, Annotation |-> << >>,
                     err |-> <<"received empty response from Ollama">>]
               ELSE LET result == parseAnnotationResponse(responseText)
                    IN  [ok |-> TRUE, Genre |-> result.Genre,
                         Annotation |-> result.Annotation, err |-> << >>]

----------------------------------------------------------------------------
(* Users, password hashes and session tokens *)

\* models.NewUser: every registered user gets the role "basic"
NewUser(id, email, password, name, t) ==
    [ID |-> id, Email |-> email, Password |-> password, Name |-> name,
     Role |-> "basic", CreatedAt |-> t, UpdatedAt |-> t]

\* models.NewUserWithRole
NewUserWithRole(id, email, password, name, role, t) ==
    [NewUser(id, email, password, name, t) EXCEPT !.Role = role]

\* User.IsContentCreator
IsContentCreator(user) == user.Role = "content"

\* bcrypt.GenerateFromPassword at bcrypt.DefaultCost: the hash names its
\* cost and its salt and digests the salt with the password
GenerateFromPassword(password, salt) ==
    [cost |-> "10", salt |-> salt, digest |-> <<"bcrypt", salt, password>>]

\* bcrypt.CompareHashAndPassword: TRUE iff password has the digest of hash
CompareHashAndPassword(hash, password) ==
    hash.digest = <<"bcrypt", hash.salt, password>>

\* The secret tokens are signed with, and a secret of somebody else
ServerKey == "JWT_SECRET"
SigningKeys == {ServerKey, "forged"}

\* The claims a token may carry: the user ID, the expiry time and the key
\* of the signature (the email claim is read by nobody)
TokenSpace ==
    [UserID : {"u1", "u2", "u3", "u9"} \cup {ToString(n) : n \in 1..MaxUsers},
     ExpiresAt : 0..(MaxTime + TokenTTL),
     key : SigningKeys]

\* The signed token, a string: the parts of a JWT are its fragments
SignedString(claims) ==
    <<"jwt", ".", claims.UserID, ".", ToString(claims.ExpiresAt), ".",
      claims.key>>

\* utils.GenerateToken: expires TokenTTL after it is issued
GenerateToken(user, t) ==
    SignedString([UserID |-> user.ID, ExpiresAt |-> t + TokenTTL,
                  key |-> ServerKey])

\* jwt.ParseWithClaims reading the claims back off a token string: the
\* set holding them, empty for a string that is no token
ParseClaims(tokenString) ==
    IF /\ Len(tokenString) = 7
       /\ <<tokenString[1], tokenString[2], tokenString[4], tokenString[6]>>
              = <<"jwt", ".", ".", ".">>
    THEN {c \in TokenSpace :
             /\ c.UserID = tokenString[3]
             /\ ToString(c.ExpiresAt) = tokenString[5]
             /\ c.key = tokenString[7]}
    ELSE {}

\* utils.ValidateToken at time t: the claims (as a set) or the error of the
\* JWT library; NotBefore and IssuedAt are the time of issue
ValidateToken(tokenString, t) ==
    LET wellFormed == ParseClaims(tokenString)
    IN  IF wellFormed = {}
        THEN [claims |-> {}, err |-> <<"token is malformed">>]
        ELSE LET claims == CHOOSE c \in wellFormed : TRUE
             IN  IF claims.key # ServerKey
                 THEN [claims |-> {}, err |-> <<"signature is invalid">>]
                 ELSE IF ~(t < claims.ExpiresAt)
                 THEN [claims |-> {}, err |-> <<"token is expired">>]
                 ELSE IF t < claims.ExpiresAt - TokenTTL
                 THEN [claims |-> {}, err |-> <<"token is not valid yet">>]
                 ELSE [claims |-> {claims}, err |-> << >>]

\* AuthService.GetUserByID on the users collection
GetUserByID(coll, userID) ==
    IF userID \in DOMAIN coll
    THEN [ret |-> {coll[userID]}, err |-> << >>]
    ELSE [ret |-> {}, err |-> <<"user not found">>]

\* The users with a given email (FindOne returns one of them)
ByEmail(coll, email) == {id \in DOMAIN coll : coll[id].Email = email}

\* The users the database holds when the server starts: two editors and a
\* reader (the role "content" is granted in the database, no route sets it)
SeedUsers ==
    [id \in {"u1", "u2", "u3"} |->
        CASE id = "u1" ->
               NewUserWithRole("u1", "ann@x.io",
                               GenerateFromPassword("secret-ann", "s0"),
                               "Ann", "content", 0)
          [] id = "u2" ->
               NewUserWithRole("u2", "bob@x.io",
                               GenerateFromPassword("secret-bob", "s0"),
                               "Bob", "content", 0)
          [] OTHER ->
               NewUser("u3", "cat@x.io",
                       GenerateFromPassword("secret-cat", "s0"), "Cat", 0)]

----------------------------------------------------------------------------
(* State *)

VARIABLES
    store,          \* the "annotations" collection: _id -> document
    nextId,         \* number of the next identifier uuid.New() hands out
    now,            \* the clock, in ticks
    awsService,     \* TRUE iff the service was built with an AWS service
    s3,             \* the bucket: key -> object
    tts,            \* the generateSpeech requests in flight, per process
    calls,          \* number of service calls and HTTP requests so far
    users,          \* the "users" collection: _id -> user
    reg,            \* the Register requests in flight, per client
    http,           \* the HTTP exchange just completed: request and response
    ttsPublished,   \* history: IDs for which a call synthesized and published
    everProcessing, \* history: IDs ever stored with status processing
    upd,            \* the updateAnnotation calls in flight, per client
    sse,            \* the streaming registry, its channels and goroutines
    deleted,        \* history: IDs a DeleteAnnotation call removed
    last            \* history: the step just taken, its inputs and its outcome

vars == <<store, nextId, now, awsService, s3, tts, calls, users, reg, http,
          upd, sse, ttsPublished, everProcessing, deleted, last>>

Procs == 1..NumProcs

\* uuid.New().String(): the n-th identifier, never handed out twice
NewID(n) == ToString(n)

IDs == {NewID(n) : n \in 1..(MaxAnnotations + 1)}

\* time.Time.Unix(): whole seconds
Unix(t) == t \div TicksPerSecond

\* models.NewAnnotation
NewAnnotation(id, userID, title, sourceFile, sourceType, t) ==
    [ID |-> id, UserID |-> userID, Title |-> title, Image |-> << >>,
     SourceFile |-> sourceFile, SourceType |-> sourceType,
     TextContent |-> << >>, Annotation |-> << >>, Genre |-> << >>,
     TTSURL |-> << >>, Status |-> "processing", ErrorMessage |-> << >>,
     CreatedAt |-> t, UpdatedAt |-> t]

\* collection.InsertOne
InsertOne(coll, doc) ==
    [k \in DOMAIN coll \cup {doc.ID} |-> IF k = doc.ID THEN doc ELSE coll[k]]

\* collection.DeleteOne by _id
DeleteOne(coll, id) == [k \in DOMAIN coll \ {id} |-> coll[k]]

\* The errors whose text the handlers search ("not found", "not configured")
ErrNotFound == <<"annotation ", "not found">>
ErrNotConfigured == <<"AWS service ", "not configured">>

\* GetAnnotationByID: the set holding the document, or the empty set with
\* the error "annotation not found"
GetAnnotationByID(coll, id) ==
    IF id \in DOMAIN coll
    THEN [ret |-> {coll[id]}, err |-> << >>]
    ELSE [ret |-> {}, err |-> ErrNotFound]

NoInput == [none |-> TRUE]

\* A step that returns nothing to a caller
Step(name) ==
    [op |-> name, id |-> "", in |-> NoInput, err |-> << >>, ret |-> {},
     seen |-> {}, awsCalls |-> 0, before |-> store]

\* A call of operation name that returned to its caller
Returned(name, id, in, err, ret, seen, awsCalls) ==
    [op |-> name, id |-> id, in |-> in, err |-> err, ret |-> ret,
     seen |-> seen, awsCalls |-> awsCalls, before |-> store]

Idle == [pc |-> "idle", id |-> "", text |-> << >>, key |-> << >>, seen |-> {}]

Clients == 1..NumClients

\* No Register request in flight
NoRequest == [pc |-> "idle", req |-> NoInput]

\* The subscriber channels (one per SSE connection) and the goroutines that
\* call sendEvent
Subs == 1..NumSubs
Senders == 1..NumSenders

\* A goroutine that is not inside sendEvent
NoSend == [pc |-> "idle", gen |-> 0, ch |-> 0, visited |-> {}, fresh |-> {},
           stale |-> {}, raced |-> FALSE]

\* NewStreamingService, for one annotation ID.  clients[annotationID] is
\* the map object number gen holding the channels inner while exists, and
\* no entry otherwise; chan is the state of every channel: events buffered
\* and close calls made; sub, snd and pending are the StreamHandler
\* requests, the sendEvent calls and the "go RemoveClient" goroutines not
\* yet run.  History: raced tells that a map was written while a sendEvent
\* ranged over it, sentOnClosed that a send was tried on a closed channel,
\* panicked what ended the process.
NewStreamingService ==
    [exists |-> FALSE, gen |-> 0, inner |-> {},
     chan |-> [ch \in Subs |-> [buf |-> 0, closes |-> 0]],
     sub |-> [ch \in Subs |-> "idle"],
     snd |-> [g \in Senders |-> NoSend],
     pending |-> [ch \in Subs |-> 0],
     raced |-> FALSE, sentOnClosed |-> FALSE, panicked |-> ""]

\* No updateAnnotation call in flight
NoUpdate == [pc |-> "idle", id |-> "", req |-> NoInput, at |-> 0]

\* No HTTP exchange yet
NoExchange ==
    [route |-> "", header |-> << >>, phase |-> "", ran |-> FALSE,
     status |-> 0, message |-> "", error |-> << >>]

Init ==
    /\ store = << >>
    /\ nextId = 1
    /\ now = 0
    /\ awsService \in BOOLEAN
    /\ s3 = << >>
    /\ tts = [p \in Procs |-> Idle]
    /\ calls = 0
    /\ users = SeedUsers
    /\ reg = [c \in Clients |-> NoRequest]
    /\ http = NoExchange
    /\ upd = [c \in Clients |-> NoUpdate]
    /\ sse = NewStreamingService
    /\ ttsPublished = {}
    /\ everProcessing = {}
    /\ deleted = {}
    /\ last = [op |-> "init", id |-> "", in |-> NoInput, err |-> << >>,
               ret |-> {}, seen |-> {}, awsCalls |-> 0, before |-> << >>]

----------------------------------------------------------------------------
(* Inputs *)

Users == {"u1", "u2"}

Images == {<< >>, <<"https://cdn.example/cover.png">>}

FileTypes == {"pdf", "PDF", "docx"}

TextPage(t) == [kind |-> "text", text |-> t]
NullPage == [kind |-> "null", text |-> << >>]

DocCats ==
    [readable |-> TRUE, parsable |-> TRUE,
     pages |-> <<TextPage(<<" ", "C", "a", "t", "s", " ", " ", "a", "r", "e",
                            "\r", "\n", "\r", "\n", "o", "k", ".", " ">>)>>]
DocTwoPages ==
    [readable |-> TRUE, parsable |-> TRUE,
     pages |-> <<NullPage, TextPage(<<"B">>)>>]
DocScanned ==
    [readable |-> TRUE, parsable |-> TRUE,
     pages |-> <<TextPage(<<" ", "\n">>)>>]
DocGarbage == [readable |-> TRUE, parsable |-> FALSE, pages |-> << >>]

Docs == {DocCats, DocTwoPages, DocScanned, DocGarbage}

Reply(r) == [kind |-> "ok", response |-> r, body |-> << >>]

ReplyTagged ==
    Reply(<<"G", "E", "N", "R", "E", ":", " ", "E", "d", "\n", "C", "a", "t", "s", "\n">>)
ReplyUntagged == Reply(<<"C", "a", "t", "s">>)
ReplyNoLabel == Reply(<<"G", "E", "N", "R", "E", ":", "\n", "C", "a", "t", "s">>)
ReplyNoBody == Reply(<<" ", "G", "E", "N", "R", "E", ":", "E", "d">>)
ReplyBlank == Reply(<<" ", "\n">>)
ReplyTransport == [kind |-> "transport", response |-> << >>, body |-> << >>]
ReplyStatus == [kind |-> "status", response |-> << >>, body |-> <<"overloaded">>]
ReplyBadJSON == [kind |-> "badjson", response |-> << >>, body |-> << >>]

Replies == {ReplyTagged, ReplyUntagged, ReplyNoLabel, ReplyNoBody, ReplyBlank,
            ReplyTransport, ReplyStatus, ReplyBadJSON}

\* The uploads tried: every reply on a good document, every document, and
\* every file type tag (by another user, with an image)
Upload(u, i, d, ft, r) ==
    [userID |-> u, title |-> <<"I", "n", "t", "r", "o">>, image |-> i,
     doc |-> d, fileType |-> ft, reply |-> r]

Uploads ==
    {Upload("u1", << >>, DocCats, "pdf", r) : r \in Replies}
    \cup {Upload("u1", << >>, d, "pdf", ReplyTagged) : d \in Docs}
    \cup {Upload("u2", i, DocCats, ft, ReplyUntagged) :
              i \in Images \ {<< >>}, ft \in FileTypes}

\* The uploads tried while other calls go on: one per outcome
CoreUploads ==
    {Upload("u1", << >>, DocCats, "pdf", ReplyTagged),
     Upload("u1", << >>, DocCats, "pdf", ReplyNoLabel),
     Upload("u2", <<"https://cdn.example/cover.png">>, DocCats, "PDF",
            ReplyTransport),
     Upload("u1", << >>, DocScanned, "pdf", ReplyTagged)}

\* models.UpdateAnnotationRequest: a nil pointer is {}, a pointer to v is {v}
Patch(t, i, a, g) == [Title |-> t, Image |-> i, Annotation |-> a, Genre |-> g]

NewTitle == <<"N", "e", "w">>
NewImage == <<"https://cdn.example/new.png">>
NewText == <<"E", "d", "i", "t">>
NewGenre == <<"F">>

Patches ==
    {Patch({}, {}, {}, {}),
     Patch({}, {}, {NewText}, {}),
     Patch({}, {}, {<< >>}, {}),
     Patch({NewTitle}, {NewImage}, {NewText}, {NewGenre})}

----------------------------------------------------------------------------
(* AWS publisher *)

BucketName == "annotations-bucket"

\* The audio Polly synthesizes for text
Speech(text) == [ContentType |-> "audio/mpeg", SpokenText |-> text]

\* The key GenerateAndUploadTTS stores the audio under
TTSKey(annotationID, t) ==
    <<"tts/", annotationID, "_">> \o Digits(Unix(t)) \o <<".mp3">>

\* The URL UploadToS3 returns for a key
S3URL(key) == <<"https://", BucketName, ".s3.amazonaws.com/">> \o key

\* s3Client.PutObject
PutObject(bucket, key, object) ==
    [k \in DOMAIN bucket \cup {key} |-> IF k = key THEN object ELSE bucket[k]]

----------------------------------------------------------------------------
(* services.AnnotationService *)

\* FailedAnnotation with a fixed message that drops the generator's error
FailedAnnotation_FixedMessage(annotation, text, genErr) ==
    [annotation EXCEPT
        !.TextContent = text,
        !.Status = "failed",
        !.ErrorMessage = <<"Annotation generation failed">>]

\* FailedAnnotation that sets the status only
FailedAnnotation_NoMessage(annotation, text, genErr) ==
    [annotation EXCEPT
        !.TextContent = text,
        !.Status = "failed"]

\* The document stored when the generator fails
FailedAnnotation(annotation, text, genErr) ==
    [annotation EXCEPT
        !.TextContent = text,
        !.Status = "failed",
        !.ErrorMessage = <<"Annotation generation failed: ">> \o genErr]

\* CompletedAnnotation that leaves the status NewAnnotation set
CompletedAnnotation_StaysProcessing(annotation, text, result, t) ==
    [annotation EXCEPT
        !.TextContent = text,
        !.Annotation = result.Annotation,
        !.Genre = result.Genre,
        !.UpdatedAt = t]

\* The document stored when extraction and generation succeed
CompletedAnnotation(annotation, text, result, t) ==
    [annotation EXCEPT
        !.TextContent = text,
        !.Annotation = result.Annotation,
        !.Genre = result.Genre,
        !.Status = "completed",
        !.UpdatedAt = t]

\* What CreateAnnotationFromStream does to the collection and returns, for
\* an upload starting at time t and taking elapsed
CreateOutcome(coll, id, up, t, elapsed) ==
    LET annotation == [NewAnnotation(id, up.userID, up.title, << >>,
                                     up.fileType, t)
                          EXCEPT !.Image = up.image]
        ext == extractTextFromStream(up.doc, up.fileType)
        result == GenerateAnnotationWithGenre(up.reply)
    IN  IF ext.err # << >>
        THEN [coll |-> coll, ret |-> {},
              err |-> <<"failed to extract text: ">> \o ext.err]
        ELSE IF ~result.ok
        THEN [coll |-> InsertOne(coll, FailedAnnotation(annotation, ext.text,
                                                        result.err)),
              ret |-> {},
              err |-> <<"failed to generate annotation: ">> \o result.err]
        ELSE LET done == CompletedAnnotation(annotation, ext.text, result,
                                             t + elapsed)
             IN  [coll |-> InsertOne(coll, done), ret |-> {done}, err |-> << >>]

Processing(coll) == {id \in DOMAIN coll : coll[id].Status = "processing"}

CreateAnnotationFromStream(up, elapsed) ==
    /\ calls < MaxCalls
    /\ nextId <= MaxAnnotations
    /\ now + elapsed <= MaxTime
    /\ calls' = calls + 1
    /\ LET out == CreateOutcome(store, NewID(nextId), up, now, elapsed)
       IN  /\ store' = out.coll
           /\ last' = Returned("create", NewID(nextId), up, out.err, out.ret,
                               {}, 0)
    /\ nextId' = nextId + 1
    /\ now' = now + elapsed
    /\ everProcessing' = everProcessing \cup Processing(store')
    /\ UNCHANGED <<awsService, s3, tts, ttsPublished, deleted, users, reg>>

\* ApplyPatch that sends an edited document back to processing
ApplyPatch_Reprocess(doc, req, t) ==
    LET Set(field, old) == IF req[field] = {} THEN old
                           ELSE CHOOSE v \in req[field] : TRUE
    IN  [doc EXCEPT
            !.UpdatedAt = t,
            !.Status = "processing",
            !.Title = Set("Title", doc.Title),
            !.Image = Set("Image", doc.Image),
            !.Annotation = Set("Annotation", doc.Annotation),
            !.Genre = Set("Genre", doc.Genre)]

\* ApplyPatch that writes the image of the patch under the key tts_url
ApplyPatch_ImageAsAudio(doc, req, t) ==
    LET Set(field, old) == IF req[field] = {} THEN old
                           ELSE CHOOSE v \in req[field] : TRUE
    IN  [doc EXCEPT
            !.UpdatedAt = t,
            !.Title = Set("Title", doc.Title),
            !.TTSURL = Set("Image", doc.TTSURL),
            !.Annotation = Set("Annotation", doc.Annotation),
            !.Genre = Set("Genre", doc.Genre)]

\* ApplyPatch that leaves updated_at alone
ApplyPatch_KeepsTimestamp(doc, req, t) ==
    LET Set(field, old) == IF req[field] = {} THEN old
                           ELSE CHOOSE v \in req[field] : TRUE
    IN  [doc EXCEPT
            !.Title = Set("Title", doc.Title),
            !.Image = Set("Image", doc.Image),
            !.Annotation = Set("Annotation", doc.Annotation),
            !.Genre = Set("Genre", doc.Genre)]

\* ApplyPatch that replaces the four fields instead of setting the named ones
ApplyPatch_Replace(doc, req, t) ==
    LET Set(field) == IF req[field] = {} THEN << >>
                      ELSE CHOOSE v \in req[field] : TRUE
    IN  [doc EXCEPT
            !.UpdatedAt = t,
            !.Title = Set("Title"),
            !.Image = Set("Image"),
            !.Annotation = Set("Annotation"),
            !.Genre = Set("Genre")]

\* The $set document of UpdateAnnotation applied to a stored document
ApplyPatch(doc, req, t) ==
    LET Set(field, old) == IF req[field] = {} THEN old
                           ELSE CHOOSE v \in req[field] : TRUE
    IN  [doc EXCEPT
            !.UpdatedAt = t,
            !.Title = Set("Title", doc.Title),
            !.Image = Set("Image", doc.Image),
            !.Annotation = Set("Annotation", doc.Annotation),
            !.Genre = Set("Genre", doc.Genre)]

\* UpdateAnnotation: one UpdateOne with $set, then the document is read back
UpdateAnnotation(annotationID, req) ==
    /\ calls < MaxCalls
    /\ calls' = calls + 1
    /\ IF annotationID \notin DOMAIN store
       THEN /\ store' = store
            /\ last' = Returned("update", annotationID, req,
                                ErrNotFound, {}, {}, 0)
       ELSE /\ store' = [store EXCEPT ![annotationID] = ApplyPatch(@, req, now)]
            /\ last' = Returned("update", annotationID, req, << >>,
                                {ApplyPatch(store[annotationID], req, now)},
                                {}, 0)
    /\ everProcessing' = everProcessing \cup Processing(store')
    /\ UNCHANGED <<nextId, now, awsService, s3, tts, ttsPublished, deleted,
                   users, reg>>

\* DeleteAnnotation that reports success when nothing was deleted
DeleteAnnotation_Idempotent(annotationID) ==
    /\ calls < MaxCalls
    /\ calls' = calls + 1
    /\ store' = DeleteOne(store, annotationID)
    /\ last' = Returned("delete", annotationID, NoInput, << >>, {}, {}, 0)
    /\ deleted' = deleted \cup (DOMAIN store \ DOMAIN store')
    /\ UNCHANGED <<nextId, now, awsService, s3, tts, ttsPublished,
                   everProcessing, users, reg>>

\* DeleteAnnotation that also removes the audio the document points to
DeleteAnnotation_Cleanup(annotationID) ==
    /\ calls < MaxCalls
    /\ calls' = calls + 1
    /\ IF annotationID \notin DOMAIN store
       THEN /\ store' = store
            /\ s3' = s3
            /\ last' = Returned("delete", annotationID, NoInput,
                                ErrNotFound, {}, {}, 0)
       ELSE /\ store' = DeleteOne(store, annotationID)
            /\ s3' = [k \in {key \in DOMAIN s3 :
                                S3URL(key) # store[annotationID].TTSURL}
                        |-> s3[k]]
            /\ last' = Returned("delete", annotationID, NoInput, << >>, {},
                                {}, 0)
    /\ deleted' = deleted \cup (DOMAIN store \ DOMAIN store')
    /\ UNCHANGED <<nextId, now, awsService, tts, ttsPublished,
                   everProcessing, users, reg>>

\* DeleteAnnotation
DeleteAnnotation(annotationID) ==
    /\ calls < MaxCalls
    /\ calls' = calls + 1
    /\ IF annotationID \notin DOMAIN store
       THEN /\ store' = store
            /\ last' = Returned("delete", annotationID, NoInput,
                                ErrNotFound, {}, {}, 0)
       ELSE /\ store' = DeleteOne(store, annotationID)
            /\ last' = Returned("delete", annotationID, NoInput, << >>, {},
                                {}, 0)
    /\ deleted' = deleted \cup (DOMAIN store \ DOMAIN store')
    /\ UNCHANGED <<nextId, now, awsService, s3, tts, ttsPublished,
                   everProcessing, users, reg>>

\* SpeechPrecheck that looks for the AWS service before it looks at the text
SpeechPrecheck_AwsFirst(coll, annotationID, aws) ==
    LET got == GetAnnotationByID(coll, annotationID)
    IN  IF got.err # << >> THEN [err |-> got.err, seen |-> {}]
        ELSE IF ~aws
        THEN [err |-> ErrNotConfigured, seen |-> got.ret]
        ELSE IF coll[annotationID].Annotation = << >>
        THEN [err |-> <<"annotation text is empty">>, seen |-> got.ret]
        ELSE [err |-> << >>, seen |-> got.ret]

\* The checks GenerateTTSForAnnotation makes before it calls AWS: the error
\* it returns (none: << >>) and the document it read
SpeechPrecheck(coll, annotationID, aws) ==
    LET got == GetAnnotationByID(coll, annotationID)
    IN  IF got.err # << >> THEN [err |-> got.err, seen |-> {}]
        ELSE IF coll[annotationID].Annotation = << >>
        THEN [err |-> <<"annotation text is empty">>, seen |-> got.ret]
        ELSE IF ~aws
        THEN [err |-> ErrNotConfigured, seen |-> got.ret]
        ELSE [err |-> << >>, seen |-> got.ret]

\* GenerateTTSForAnnotation, first part: read the document and check it
StartSpeech(p, annotationID) ==
    /\ tts[p].pc = "idle"
    /\ calls < MaxCalls
    /\ calls' = calls + 1
    /\ LET check == SpeechPrecheck(store, annotationID, awsService)
       IN  IF check.err # << >>
           THEN /\ tts' = tts
                /\ last' = Returned("tts", annotationID, NoInput, check.err,
                                    {}, check.seen, 0)
           ELSE /\ tts' = [tts EXCEPT ![p] =
                              [pc |-> "fetched", id |-> annotationID,
                               text |-> store[annotationID].Annotation,
                               key |-> << >>, seen |-> check.seen]]
                /\ last' = Step("ttsFetch")
    /\ UNCHANGED <<store, nextId, now, awsService, s3, ttsPublished,
                   everProcessing, deleted, users, reg>>

\* GenerateTTSForAnnotation, second part: awsService.GenerateAndUploadTTS.
\* Polly and S3 answer as the environment chooses.
PublishSpeech(p, answer) ==
    /\ tts[p].pc = "fetched"
    /\ LET key == TTSKey(tts[p].id, now)
       IN  CASE answer = "polly fails" ->
                  /\ last' = Returned("tts", tts[p].id, NoInput,
                                      <<"failed to generate TTS: ",
                                        "failed to synthesize speech: ",
                                        "throttled">>,
                                      {}, tts[p].seen, 1)
                  /\ tts' = [tts EXCEPT ![p] = Idle]
                  /\ UNCHANGED <<s3, ttsPublished>>
             [] answer = "s3 fails" ->
                  /\ last' = Returned("tts", tts[p].id, NoInput,
                                      <<"failed to generate TTS: ",
                                        "failed to upload to S3: ",
                                        "access denied">>,
                                      {}, tts[p].seen, 2)
                  /\ tts' = [tts EXCEPT ![p] = Idle]
                  /\ UNCHANGED <<s3, ttsPublished>>
             [] OTHER ->
                  /\ s3' = PutObject(s3, key, Speech(tts[p].text))
                  /\ tts' = [tts EXCEPT ![p].pc = "published", ![p].key = key]
                  /\ ttsPublished' = ttsPublished \cup {tts[p].id}
                  /\ last' = Step("ttsPublish")
    /\ UNCHANGED <<store, nextId, now, awsService, calls, everProcessing,
                   deleted, users, reg>>

\* The $set document of GenerateTTSForAnnotation applied to a stored document
SetTTSURL(doc, ttsURL, t) == [doc EXCEPT !.TTSURL = ttsURL, !.UpdatedAt = t]

\* GenerateTTSForAnnotation, last part: UpdateOne, then the document is read
\* back and returned
StoreSpeechURL(p) ==
    /\ tts[p].pc = "published"
    /\ store' = IF tts[p].id \in DOMAIN store
                THEN [store EXCEPT ![tts[p].id] =
                                      SetTTSURL(@, S3URL(tts[p].key), now)]
                ELSE store
    /\ LET got == GetAnnotationByID(store', tts[p].id)
       IN  last' = Returned("tts", tts[p].id, NoInput, got.err, got.ret,
                            tts[p].seen, 2)
    /\ tts' = [tts EXCEPT ![p] = Idle]
    /\ everProcessing' = everProcessing \cup Processing(store')
    /\ UNCHANGED <<nextId, now, awsService, s3, calls, ttsPublished,
                   deleted, users, reg>>

\* Time passes
Tick ==
    /\ now < MaxTime
    /\ now' = now + 1
    /\ last' = Step("tick")
    /\ UNCHANGED <<store, nextId, awsService, s3, tts, calls,
                   ttsPublished, everProcessing, deleted, users, reg>>

\* The identifiers a caller passes: those of the stored documents and one
\* that is not stored (the collection treats all of those alike)
Callable ==
    DOMAIN store \cup
        (IF IDs \subseteq DOMAIN store THEN {}
         ELSE {NewID(CHOOSE n \in 1..(MaxAnnotations + 1) :
                       /\ NewID(n) \notin DOMAIN store
                       /\ \A m \in 1..(n - 1) : NewID(m) \in DOMAIN store)})

----------------------------------------------------------------------------
(* HTTP: the router of main, the middleware and the handlers *)

RouteProfile == "GET /auth/profile"
RouteList == "GET /annotations"
RouteGet == "GET /annotations/:id"
RouteAudio == "GET /annotations/:id/audio"
RouteUpload == "POST /annotations/upload"
RouteStats == "GET /annotations/stats"
RoutePatch == "PATCH /annotations/:id"
RouteDelete == "DELETE /annotations/:id"
RouteTTS == "POST /annotations/:id/tts"

\* The routes behind AuthMiddleware, and those also behind
\* ContentCreatorMiddleware
ProtectedRoutes ==
    {RouteProfile, RouteList, RouteGet, RouteAudio, RouteUpload, RouteStats,
     RoutePatch, RouteDelete, RouteTTS}
CreatorRoutes == {RouteUpload, RouteStats, RoutePatch, RouteDelete, RouteTTS}

\* c.JSON followed by c.Abort()
Abort(status, message, error) ==
    [next |-> FALSE, status |-> status, message |-> message, error |-> error,
     user |-> {}]

\* c.Next() with the user put in the context
Proceed(user) ==
    [next |-> TRUE, status |-> 0, message |-> "", error |-> << >>,
     user |-> user]

\* AuthMiddleware that takes a token for valid whatever its expiry says
AuthMiddleware_IgnoresExpiry(coll, authHeader, t) ==
    LET tokenParts == Split(authHeader, " ")
    IN  IF authHeader = << >>
        THEN Abort(401, "Authorization header required", << >>)
        ELSE IF Len(tokenParts) # 2 \/ tokenParts[1] # <<"Bearer">>
        THEN Abort(401, "Invalid authorization header format. Use: Bearer <token>",
                   << >>)
        ELSE LET known == {c \in ParseClaims(tokenParts[2]) :
                              c.key = ServerKey}
             IN  IF known = {}
                 THEN Abort(401, "Invalid or expired token", <<"token is malformed">>)
                 ELSE LET got == GetUserByID(
                                     coll, (CHOOSE c \in known : TRUE).UserID)
                      IN  IF got.err # << >>
                          THEN Abort(401, "User not found", got.err)
                          ELSE Proceed(got.ret)

\* AuthMiddleware on the users collection, for the Authorization header of a
\* request arriving at time t
AuthMiddleware(coll, authHeader, t) ==
    LET tokenParts == Split(authHeader, " ")
    IN  IF authHeader = << >>
        THEN Abort(401, "Authorization header required", << >>)
        ELSE IF Len(tokenParts) # 2 \/ tokenParts[1] # <<"Bearer">>
        THEN Abort(401, "Invalid authorization header format. Use: Bearer <token>",
                   << >>)
        ELSE LET valid == ValidateToken(tokenParts[2], t)
             IN  IF valid.err # << >>
                 THEN Abort(401, "Invalid or expired token", valid.err)
                 ELSE LET claims == CHOOSE c \in valid.claims : TRUE
                          got == GetUserByID(coll, claims.UserID)
                      IN  IF got.err # << >>
                          THEN Abort(401, "User not found", got.err)
                          ELSE Proceed(got.ret)

\* ContentCreatorMiddleware that lets every authenticated user through
ContentCreatorMiddleware_AnyRole(user) ==
    IF user = {}
    THEN Abort(401, "User not authenticated", << >>)
    ELSE Proceed(user)

\* ContentCreatorMiddleware for the user AuthMiddleware put in the context
ContentCreatorMiddleware(user) ==
    IF user = {}
    THEN Abort(401, "User not authenticated", << >>)
    ELSE IF ~IsContentCreator(CHOOSE u \in user : TRUE)
    THEN Abort(403, "Access denied. Content creator role required.", << >>)
    ELSE Proceed(user)

\* The middleware chain main puts before the handler of a route
Gate(route, authHeader) ==
    LET auth == AuthMiddleware(users, authHeader, now)
    IN  IF ~auth.next \/ route \notin CreatorRoutes THEN auth
        ELSE ContentCreatorMiddleware(auth.user)

\* The user the handler of a route finds in the context
ContextUser(route, authHeader) ==
    CHOOSE u \in Gate(route, authHeader).user : TRUE

\* An exchange: the request as it arrived and the answer to it.  The answer
\* to a speech request that is still at work has status 0; the answer it
\* gets in the end is an exchange of phase "completion".
Exchange(route, authHeader, ran, status, message, error) ==
    [route |-> route, header |-> authHeader, phase |-> "arrival", ran |-> ran,
     status |-> status, message |-> message, error |-> error]

Completion(route, status, message, error) ==
    [route |-> route, header |-> << >>, phase |-> "completion", ran |-> TRUE,
     status |-> status, message |-> message, error |-> error]

\* A request the middleware answers: the handler does not run
Rejected(route, authHeader) ==
    /\ ~Gate(route, authHeader).next
    /\ calls < MaxRequests
    /\ calls' = calls + 1
    /\ LET g == Gate(route, authHeader)
       IN  http' = Exchange(route, authHeader, FALSE, g.status, g.message,
                            g.error)
    /\ last' = Step("rejected")
    /\ UNCHANGED <<store, nextId, now, awsService, s3, tts, users, reg,
                   ttsPublished, everProcessing, deleted>>
    /\ UNCHANGED <<upd, sse>>

\* A handler that reads and answers
Answer(route, authHeader, status, message, error) ==
    /\ Gate(route, authHeader).next
    /\ calls < MaxRequests
    /\ calls' = calls + 1
    /\ http' = Exchange(route, authHeader, TRUE, status, message, error)
    /\ last' = Step("read")
    /\ UNCHANGED <<store, nextId, now, awsService, s3, tts, users, reg,
                   ttsPublished, everProcessing, deleted>>
    /\ UNCHANGED <<upd, sse>>

\* AuthHandler.GetProfile
HandlerGetProfile(authHeader) ==
    Answer(RouteProfile, authHeader, 200, "Profile retrieved successfully", << >>)

\* AnnotationHandler.GetAnnotation
HandlerGetAnnotation(authHeader, annotationID) ==
    LET got == GetAnnotationByID(store, annotationID)
    IN  IF got.err # << >>
        THEN Answer(RouteGet, authHeader,
                    IF got.err = ErrNotFound THEN 404 ELSE 500,
                    "Failed to get annotation", got.err)
        ELSE Answer(RouteGet, authHeader, 200,
                    "Annotation retrieved successfully", << >>)

\* All orders of the IDs of a set
Perms(S) ==
    {o \in [1..Cardinality(S) -> S] :
        \A i, j \in 1..Cardinality(S) : i # j => o[i] # o[j]}

\* The orders Find may return the collection in under the sort
\* {created_at: -1}: documents created at the same time come in any order
SortedByCreatedAt(coll) ==
    {o \in Perms(DOMAIN coll) :
        \A i, j \in 1..Len(o) :
            i < j => coll[o[i]].CreatedAt >= coll[o[j]].CreatedAt}

\* GetAllAnnotations that returns the oldest documents first
GetAllAnnotations_OldestFirst(coll, limit, offset) ==
    {[i \in 1..Len(o) |-> coll[o[Len(o) + 1 - i]]] : o \in SortedByCreatedAt(coll)}

\* AnnotationService.GetAllAnnotations: the lists Find may return.  A limit
\* or an offset that is not positive is not set.
GetAllAnnotations(coll, limit, offset) ==
    {LET skipped == IF offset > 0
                    THEN (IF offset >= Len(o) THEN << >>
                          ELSE SubSeq(o, offset + 1, Len(o)))
                    ELSE o
         limited == IF limit > 0 /\ limit < Len(skipped)
                    THEN SubSeq(skipped, 1, limit)
                    ELSE skipped
     IN  [i \in 1..Len(limited) |-> coll[limited[i]]] :
        o \in SortedByCreatedAt(coll)}

\* strconv.ParseInt(s, 10, 64) on a string of characters: an optional sign
\* and then one decimal digit or more
DigitChars == <<"0", "1", "2", "3", "4", "5", "6", "7", "8", "9">>

DigitValue(c) == (CHOOSE i \in 1..10 : DigitChars[i] = c) - 1

RECURSIVE DecimalValue(_)
DecimalValue(digits) ==
    IF digits = << >> THEN 0
    ELSE DecimalValue(SubSeq(digits, 1, Len(digits) - 1)) * 10
             + DigitValue(digits[Len(digits)])

ParseInt(s) ==
    LET signed == s # << >> /\ s[1] \in {"+", "-"}
        digits == IF signed THEN Tail(s) ELSE s
    IN  IF \/ digits = << >>
           \/ \E i \in 1..Len(digits) :
                  \A d \in 1..10 : DigitChars[d] # digits[i]
        THEN [err |-> TRUE, n |-> 0]
        ELSE [err |-> FALSE,
              n |-> IF signed /\ s[1] = "-" THEN 0 - DecimalValue(digits)
                    ELSE DecimalValue(digits)]

\* c.DefaultQuery: the value of a query parameter, the default if the
\* request has no such parameter
DefaultQuery(query, key, default) ==
    IF query[key] = {} THEN default ELSE CHOOSE v \in query[key] : TRUE

\* The limit and the offset AnnotationHandler.GetAllAnnotations calls the
\* service with
QueryLimit(query) ==
    LET limit == ParseInt(DefaultQuery(query, "limit", <<"1", "0">>))
    IN  IF limit.err \/ limit.n <= 0 THEN 10 ELSE limit.n

QueryOffset(query) ==
    LET offset == ParseInt(DefaultQuery(query, "offset", <<"0">>))
    IN  IF offset.err \/ offset.n < 0 THEN 0 ELSE offset.n

\* AnnotationHandler.GetAllAnnotations
HandlerGetAllAnnotations(authHeader, query) ==
    /\ Gate(RouteList, authHeader).next
    /\ calls < MaxCalls
    /\ calls' = calls + 1
    /\ \E annotations \in GetAllAnnotations(store, QueryLimit(query),
                                            QueryOffset(query)) :
           last' = Returned("list", "",
                            [query |-> query, limit |-> QueryLimit(query),
                             offset |-> QueryOffset(query)],
                            << >>, {annotations}, {}, 0)
    /\ http' = Exchange(RouteList, authHeader, TRUE, 200,
                        "Annotations retrieved successfully", << >>)
    /\ UNCHANGED <<store, nextId, now, awsService, s3, tts, users, reg,
                   ttsPublished, everProcessing, deleted>>
    /\ UNCHANGED <<upd, sse>>

\* The sum of a count over a set of groups
RECURSIVE SumOver(_, _)
SumOver(groups, count) ==
    IF groups = {} THEN 0
    ELSE LET g == CHOOSE x \in groups : TRUE
         IN  count[g] + SumOver(groups \ {g}, count)

\* GetAnnotationStats that counts the documents of every user
GetAnnotationStats_AllOwners(coll, userID) ==
    LET groups == {coll[id].Status : id \in DOMAIN coll}
        count == [g \in groups |->
                     Cardinality({id \in DOMAIN coll : coll[id].Status = g})]
    IN  [k \in {"total", "processing", "completed", "failed"} \cup groups |->
            IF k = "total" THEN SumOver(groups, count)
            ELSE IF k \in groups THEN count[k] ELSE 0]

\* AnnotationService.GetAnnotationStats: $match by user_id, $group by
\* status; every group sets its own key and adds to "total"
GetAnnotationStats(coll, userID) ==
    LET matched == {id \in DOMAIN coll : coll[id].UserID = userID}
        groups == {coll[id].Status : id \in matched}
        count == [g \in groups |->
                     Cardinality({id \in matched : coll[id].Status = g})]
    IN  [k \in {"total", "processing", "completed", "failed"} \cup groups |->
            IF k = "total" THEN SumOver(groups, count)
            ELSE IF k \in groups THEN count[k] ELSE 0]

\* AnnotationHandler.GetAnnotationStats, for the user in the context
HandlerGetAnnotationStats(authHeader) ==
    /\ Gate(RouteStats, authHeader).next
    /\ calls < MaxCalls
    /\ calls' = calls + 1
    /\ \E user \in Gate(RouteStats, authHeader).user :
           last' = Returned("stats", user.ID, NoInput, << >>,
                            {GetAnnotationStats(store, user.ID)}, {}, 0)
    /\ http' = Exchange(RouteStats, authHeader, TRUE, 200,
                        "Statistics retrieved successfully", << >>)
    /\ UNCHANGED <<store, nextId, now, awsService, s3, tts, users, reg,
                   ttsPublished, everProcessing, deleted>>
    /\ UNCHANGED <<upd, sse>>

\* AnnotationHandler.DownloadAudio
HandlerDownloadAudio(authHeader, annotationID) ==
    LET got == GetAnnotationByID(store, annotationID)
    IN  IF got.err # << >>
        THEN Answer(RouteAudio, authHeader, 404, "Annotation not found", << >>)
        ELSE IF store[annotationID].TTSURL = << >>
        THEN Answer(RouteAudio, authHeader, 404,
                    "TTS audio not available. Use POST /annotations/:id/tts to generate it.",
                    << >>)
        ELSE Answer(RouteAudio, authHeader, 302, "", << >>)

\* The image file names the handlers take, by extension
validExts == {".jpg", ".jpeg", ".png", ".gif", ".webp"}

\* The content type the handlers give an image, by extension
ImageContentType(ext) ==
    CASE ext = ".png" -> "image/png"
      [] ext = ".gif" -> "image/gif"
      [] ext = ".webp" -> "image/webp"
      [] OTHER -> "image/jpeg"

\* The key UploadImageToS3 stores an image under
ImageKey(annotationID, contentType, t) ==
    <<"images/", annotationID, "_">> \o Digits(Unix(t))
        \o <<CASE contentType = "image/png" -> ".png"
                [] contentType = "image/gif" -> ".gif"
                [] contentType = "image/webp" -> ".webp"
                [] OTHER -> ".jpg">>

\* AnnotationService.UploadImageForAnnotationUpdate: the URL, the error and
\* the bucket afterwards; S3 answers as the environment chooses
UploadImageForAnnotationUpdate(aws, bucket, annotationID, ctype, answer, t) ==
    IF ~aws
    THEN [url |-> << >>, err |-> ErrNotConfigured, bucket |-> bucket]
    ELSE IF answer # "ok"
    THEN [url |-> << >>,
          err |-> <<"failed to upload image: ", "failed to upload to S3: ",
                    "access denied">>,
          bucket |-> bucket]
    ELSE LET key == ImageKey(annotationID, ctype, t)
         IN  [url |-> S3URL(key), err |-> << >>,
              bucket |-> PutObject(bucket, key,
                                   [ContentType |-> ctype,
                                    SpokenText |-> << >>])]

\* What a handler leaves behind: the collection and the bucket, whether it
\* called the service (called), the call's input, result and error, and the
\* response
Outcome(coll, bucket, called, in, ret, err, status, message, error) ==
    [coll |-> coll, bucket |-> bucket, called |-> called, in |-> in,
     ret |-> ret, err |-> err, status |-> status, message |-> message,
     error |-> error]

\* The checks of AnnotationHandler.UploadAndCreateAnnotation in their order,
\* for a form, the upload up the handler passes on, the result img of the
\* image upload and the result out of the service
UploadResponse(coll, bucket, form, up, img, out) ==
    LET hasImage == form.image # "none"
        bucket2 == IF hasImage THEN img.bucket ELSE bucket
    IN  IF form.title = << >>
        THEN Outcome(coll, bucket, FALSE, NoInput, {}, << >>,
                     400, "Title is required", << >>)
        ELSE IF hasImage /\ ToLower(form.image) \notin validExts
        THEN Outcome(coll, bucket, FALSE, NoInput, {}, << >>, 400,
                     "Only image files are supported (jpg, png, gif, webp)",
                     << >>)
        ELSE IF hasImage /\ img.err # << >>
        THEN Outcome(coll, bucket, FALSE, NoInput, {}, << >>,
                     500, "Failed to upload image", img.err)
        ELSE IF form.file = "none"
        THEN Outcome(coll, bucket2, FALSE, NoInput, {}, << >>,
                     400, "File is required", <<"http: no such file">>)
        ELSE IF ToLower(form.file) # ".pdf"
        THEN Outcome(coll, bucket2, FALSE, NoInput, {}, << >>,
                     400, "Only PDF files are supported", << >>)
        ELSE IF out.err # << >>
        THEN Outcome(out.coll, bucket2, TRUE, up, out.ret, out.err,
                     500, "Failed to create annotation", out.err)
        ELSE Outcome(out.coll, bucket2, TRUE, up, out.ret, out.err,
                     201, "Annotation created successfully", << >>)

\* The upload the handler passes to CreateAnnotationFromStream
UploadOf(user, form, imageURL) ==
    [userID |-> user.ID, title |-> form.title, image |-> imageURL,
     doc |-> form.doc, fileType |-> "pdf", reply |-> form.reply]

\* AnnotationHandler.UploadAndCreateAnnotation for the user in the context
\* and a multipart form [title, image, image_url, file, doc, reply, s3]:
\* image and file are the extensions of the uploaded files ("none": no such
\* part), doc is the content of file, reply and s3 are the answers of the
\* model server and of S3
UploadOutcome(coll, bucket, aws, id, user, form, t, elapsed) ==
    \* the image goes to S3 under a temporary ID made of the time
    LET img == UploadImageForAnnotationUpdate(
                   aws, bucket, "temp_" \o ToString(t),
                   ImageContentType(ToLower(form.image)), form.s3, t)
        up == UploadOf(user, form, IF form.image # "none" THEN img.url
                                   ELSE form.image_url)
    IN  UploadResponse(coll, bucket, form, up, img,
                       CreateOutcome(coll, id, up, t, elapsed))

HandlerUploadAndCreateAnnotation(authHeader, form, elapsed) ==
    /\ Gate(RouteUpload, authHeader).next
    /\ calls < MaxRequests
    /\ calls' = calls + 1
    /\ \E out \in {UploadOutcome(store, s3, awsService, NewID(nextId),
                                 ContextUser(RouteUpload, authHeader), form,
                                 now, elapsed)} :
           /\ out.called => nextId <= MaxAnnotations /\ now + elapsed <= MaxTime
           /\ store' = out.coll
           /\ s3' = out.bucket
           /\ nextId' = IF out.called THEN nextId + 1 ELSE nextId
           /\ now' = IF out.called THEN now + elapsed ELSE now
           /\ last' = IF out.called
                      THEN Returned("create", NewID(nextId), out.in, out.err,
                                    out.ret, {}, 0)
                      ELSE Step("invalid")
           /\ http' = Exchange(RouteUpload, authHeader, TRUE, out.status,
                               out.message, out.error)
    /\ everProcessing' = everProcessing \cup Processing(store')
    /\ UNCHANGED <<awsService, tts, users, reg, ttsPublished, deleted>>
    /\ UNCHANGED <<upd, sse>>

\* The status AnnotationHandler.UpdateAnnotation answers an error with
UpdateStatus(err) ==
    IF Contains(err, <<"not found">>) THEN 404 ELSE 500

\* The request AnnotationHandler.UpdateAnnotation builds from a multipart
\* form: empty values are left out
FormRequest(body, image) ==
    Patch(IF body.title = << >> THEN {} ELSE {body.title},
          image,
          IF body.annotation = << >> THEN {} ELSE {body.annotation},
          IF body.genre = << >> THEN {} ELSE {body.genre})

\* UpdateOutcome that stores the patch as a new document when none matches
UpdateOutcome_Upsert(coll, bucket, aws, annotationID, body, t) ==
    LET req == IF body.kind = "json" THEN body.req
               ELSE Patch({}, {}, {}, {})
        blank == NewAnnotation(annotationID, << >>, << >>, << >>, << >>, t)
        doc == ApplyPatch(IF annotationID \in DOMAIN coll
                          THEN coll[annotationID] ELSE blank, req, t)
    IN  Outcome(InsertOne(coll, doc), bucket, TRUE, req, {doc}, << >>,
                200, "Annotation updated successfully", << >>)

\* AnnotationHandler.UpdateAnnotation for a body that is JSON
\* [kind |-> "json", req], not JSON [kind |-> "badjson"], or a multipart form
\* [kind |-> "form", title, annotation, genre, image, s3]
UpdateOutcome(coll, bucket, aws, annotationID, body, t) ==
    LET hasImage == body.kind = "form" /\ body.image # "none"
        contentType == ImageContentType(ToLower(body.image))
        img == UploadImageForAnnotationUpdate(aws, bucket, annotationID,
                                              contentType, body.s3, t)
        bucket2 == IF hasImage THEN img.bucket ELSE bucket
        req == IF body.kind = "form"
               THEN FormRequest(body, IF hasImage THEN {img.url} ELSE {})
               ELSE body.req
    IN  IF body.kind = "badjson"
        THEN Outcome(coll, bucket, FALSE, NoInput, {}, << >>,
                     400, "Invalid request body", <<"invalid character">>)
        ELSE IF hasImage /\ ToLower(body.image) \notin validExts
        THEN Outcome(coll, bucket, FALSE, NoInput, {}, << >>, 400,
                     "Only image files are supported (jpg, png, gif, webp)",
                     << >>)
        ELSE IF hasImage /\ img.err # << >>
        THEN Outcome(coll, bucket, FALSE, NoInput, {}, << >>,
                     500, "Failed to upload image", img.err)
        ELSE IF annotationID \notin DOMAIN coll
        THEN Outcome(coll, bucket2, TRUE, req, {}, ErrNotFound,
                     UpdateStatus(ErrNotFound), "Failed to update annotation",
                     ErrNotFound)
        ELSE LET doc == ApplyPatch(coll[annotationID], req, t)
             IN  Outcome([coll EXCEPT ![annotationID] = doc], bucket2, TRUE,
                         req, {doc}, << >>,
                         200, "Annotation updated successfully", << >>)

HandlerUpdateAnnotation(authHeader, annotationID, body) ==
    /\ Gate(RoutePatch, authHeader).next
    /\ calls < MaxRequests
    /\ calls' = calls + 1
    /\ LET out == UpdateOutcome(store, s3, awsService, annotationID, body, now)
       IN  /\ store' = out.coll
           /\ s3' = out.bucket
           /\ last' = IF out.called
                      THEN Returned("update", annotationID, out.in, out.err,
                                    out.ret, {}, 0)
                      ELSE Step("invalid")
           /\ http' = Exchange(RoutePatch, authHeader, TRUE, out.status,
                               out.message, out.error)
    /\ everProcessing' = everProcessing \cup Processing(store')
    /\ UNCHANGED <<nextId, now, awsService, tts, users, reg, ttsPublished,
                   deleted>>
    /\ UNCHANGED <<upd, sse>>

\* The status AnnotationHandler.DeleteAnnotation answers with
DeleteStatus(err) ==
    IF err = << >> THEN 200
    ELSE IF Contains(err, <<"not found">>) THEN 404
    ELSE IF Contains(err, <<"unauthorized">>) THEN 403
    ELSE 500

HandlerDeleteAnnotation(authHeader, annotationID) ==
    /\ Gate(RouteDelete, authHeader).next
    /\ calls < MaxRequests
    /\ DeleteAnnotation(annotationID)
    /\ http' = Exchange(RouteDelete, authHeader, TRUE, DeleteStatus(last'.err),
                        IF last'.err = << >>
                        THEN "Annotation deleted successfully"
                        ELSE "Failed to delete annotation",
                        last'.err)
    /\ UNCHANGED <<upd, sse>>

\* The status AnnotationHandler.GenerateTTSForAnnotation answers with
TTSStatus(err) ==
    IF err = << >> THEN 200
    ELSE IF Contains(err, <<"not found">>) THEN 404
    ELSE IF Contains(err, <<"not configured">>) THEN 503
    ELSE 500

TTSMessage(err) ==
    IF err = << >> THEN "TTS generated successfully" ELSE "Failed to generate TTS"

\* AnnotationHandler.GenerateTTSForAnnotation: the request arrives and the
\* service reads the document; the answer follows at once if that fails
HandlerGenerateTTSForAnnotation(authHeader, p, annotationID) ==
    /\ Gate(RouteTTS, authHeader).next
    /\ calls < MaxRequests
    /\ StartSpeech(p, annotationID)
    /\ http' = IF last'.op = "tts"
               THEN Exchange(RouteTTS, authHeader, TRUE, TTSStatus(last'.err),
                             TTSMessage(last'.err), last'.err)
               ELSE Exchange(RouteTTS, authHeader, TRUE, 0, "", << >>)
    /\ UNCHANGED <<upd, sse>>

\* ... the service publishes; the answer follows if that fails
HandlerPublishSpeech(p, answer) ==
    /\ PublishSpeech(p, answer)
    /\ http' = IF last'.op = "tts"
               THEN Completion(RouteTTS, TTSStatus(last'.err),
                               TTSMessage(last'.err), last'.err)
               ELSE http
    /\ UNCHANGED <<upd, sse>>

\* ... the service stores the URL and the handler answers
HandlerStoreSpeechURL(p) ==
    /\ StoreSpeechURL(p)
    /\ http' = Completion(RouteTTS, TTSStatus(last'.err),
                          TTSMessage(last'.err), last'.err)
    /\ UNCHANGED <<upd, sse>>

----------------------------------------------------------------------------
(* services.AuthService behind handlers.AuthHandler *)

RouteRegister == "POST /auth/register"
RouteLogin == "POST /auth/login"

\* The binding rules of models.RegisterRequest and models.LoginRequest:
\* every field required, email an address, password of six characters or
\* more for Register
IsEmail(email) == email \notin {"", "nobody"}

BindsRegister(req) ==
    IsEmail(req.Email) /\ Len(req.Password) >= 6 /\ req.Name # ""

BindsLogin(req) == IsEmail(req.Email) /\ req.Password # ""

\* User.ToUserResponse with the token: models.AuthResponse
AuthResponse(user, token) ==
    [User |-> [ID |-> user.ID, Email |-> user.Email, Name |-> user.Name,
               Role |-> user.Role, CreatedAt |-> user.CreatedAt,
               UpdatedAt |-> user.UpdatedAt],
     Token |-> token]

ErrUserExists == <<"user with this email already exists">>
ErrInvalidLogin == <<"invalid email or password">>

\* AuthHandler.Register, first part: the request is bound and
\* AuthService.Register looks for a user with the email
Register(c, req) ==
    /\ reg[c].pc = "idle"
    /\ IF ~BindsRegister(req)
       THEN /\ reg' = reg
            /\ last' = Step("invalid")
            /\ http' = Exchange(RouteRegister, << >>, TRUE, 400,
                                "Invalid request payload", <<"validation failed">>)
       ELSE IF ByEmail(users, req.Email) # {}
       THEN /\ reg' = reg
            /\ last' = Returned("register", "", req, ErrUserExists, {}, {}, 0)
            /\ http' = Exchange(RouteRegister, << >>, TRUE, 409,
                                "Registration failed", ErrUserExists)
       ELSE /\ reg' = [reg EXCEPT ![c] = [pc |-> "checked", req |-> req]]
            /\ last' = Step("registerFind")
            /\ http' = http
    /\ UNCHANGED <<store, nextId, now, awsService, s3, tts, calls, users,
                   ttsPublished, everProcessing, deleted>>
    /\ UNCHANGED <<upd, sse>>

\* AuthHandler.Register, second part: the password is hashed with a fresh
\* salt, the user is inserted and gets a token
RegisterInsertOne(c) ==
    /\ reg[c].pc = "checked"
    /\ nextId <= MaxUsers
    /\ LET req == reg[c].req
           hashedPassword == GenerateFromPassword(req.Password,
                                                  "s" \o ToString(nextId))
           user == NewUser(NewID(nextId), req.Email, hashedPassword, req.Name,
                           now)
           response == AuthResponse(user, GenerateToken(user, now))
       IN  /\ users' = [id \in DOMAIN users \cup {user.ID} |->
                           IF id = user.ID THEN user ELSE users[id]]
           /\ last' = Returned("register", user.ID, req, << >>, {response},
                               {}, 0)
           /\ http' = Exchange(RouteRegister, << >>, TRUE, 201,
                               "User registered successfully", << >>)
    /\ nextId' = nextId + 1
    /\ reg' = [reg EXCEPT ![c] = NoRequest]
    /\ UNCHANGED <<store, now, awsService, s3, tts, calls, ttsPublished,
                   everProcessing, deleted>>
    /\ UNCHANGED <<upd, sse>>

\* LoginOutcome that tells an unknown email from a wrong password
LoginOutcome_NamesCause(coll, req, found, t) ==
    IF found = {}
    THEN [err |-> <<"user not found">>, ret |-> {}]
    ELSE LET user == coll[CHOOSE id \in found : TRUE]
         IN  IF ~CompareHashAndPassword(user.Password, req.Password)
             THEN [err |-> ErrInvalidLogin, ret |-> {}]
             ELSE [err |-> << >>,
                   ret |-> {AuthResponse(user, GenerateToken(user, t))}]

\* AuthService.Login at time t, where found is what FindOne came back with:
\* the ID of a user with the email, or nothing
LoginOutcome(coll, req, found, t) ==
    IF found = {}
    THEN [err |-> ErrInvalidLogin, ret |-> {}]
    ELSE LET user == coll[CHOOSE id \in found : TRUE]
         IN  IF ~CompareHashAndPassword(user.Password, req.Password)
             THEN [err |-> ErrInvalidLogin, ret |-> {}]
             ELSE [err |-> << >>,
                   ret |-> {AuthResponse(user, GenerateToken(user, t))}]

\* The response of AuthHandler.Login to what the service returned
LoginResponse(out) ==
    IF out.err = << >>
    THEN Exchange(RouteLogin, << >>, TRUE, 200, "Login successful", << >>)
    ELSE Exchange(RouteLogin, << >>, TRUE,
                  IF out.err = ErrInvalidLogin THEN 401 ELSE 500,
                  "Login failed", out.err)

\* What FindOne may come back with for an email
FindOneByEmail(coll, email) ==
    IF ByEmail(coll, email) = {} THEN {{}}
    ELSE {{id} : id \in ByEmail(coll, email)}

\* AuthHandler.Login
Login(req) ==
    /\ IF ~BindsLogin(req)
       THEN /\ last' = Step("invalid")
            /\ http' = Exchange(RouteLogin, << >>, TRUE, 400,
                                "Invalid request payload", <<"validation failed">>)
       ELSE \E found \in FindOneByEmail(users, req.Email) :
               LET out == LoginOutcome(users, req, found, now)
               IN  /\ last' = Returned("login",
                                       IF found = {} THEN ""
                                       ELSE CHOOSE id \in found : TRUE,
                                       req, out.err, out.ret, {}, 0)
                   /\ http' = LoginResponse(out)
    /\ UNCHANGED <<store, nextId, now, awsService, s3, tts, calls, users, reg,
                   ttsPublished, everProcessing, deleted>>
    /\ UNCHANGED <<upd, sse>>

----------------------------------------------------------------------------
(* AnnotationService.UpdateAnnotation, step by step, for calls in flight *)

\* UpdateAnnotation, first part: UpdateOne with the $set document.  With no
\* document matched the call returns "annotation not found" at once.
UpdateOne(c, annotationID, req) ==
    /\ upd[c].pc = "idle"
    /\ calls < MaxCalls
    /\ calls' = calls + 1
    /\ IF annotationID \notin DOMAIN store
       THEN /\ store' = store
            /\ upd' = upd
            /\ last' = Returned("update", annotationID, req, ErrNotFound,
                                {}, {}, 0)
       ELSE /\ store' = [store EXCEPT ![annotationID] = ApplyPatch(@, req, now)]
            /\ upd' = [upd EXCEPT ![c] = [pc |-> "written",
                                          id |-> annotationID, req |-> req,
                                          at |-> calls + 1]]
            /\ last' = Step("updateOne")
    /\ everProcessing' = everProcessing \cup Processing(store')
    /\ UNCHANGED <<nextId, now, awsService, s3, tts, users, reg, http, sse,
                   ttsPublished, deleted>>

\* UpdateAnnotation, second part: the document is read back and returned
UpdateReadBack(c) ==
    /\ upd[c].pc = "written"
    /\ LET got == GetAnnotationByID(store, upd[c].id)
       IN  last' = Returned("update", upd[c].id, upd[c].req, got.err,
                            got.ret, {}, 0)
    /\ upd' = [upd EXCEPT ![c] = NoUpdate]
    /\ UNCHANGED <<store, nextId, now, awsService, s3, tts, calls, users, reg,
                   http, sse, ttsPublished, everProcessing, deleted>>

----------------------------------------------------------------------------
(* services.StreamingService: the registry of SSE subscribers *)

\* What a step of the registry leaves alone
RegistryOnly ==
    UNCHANGED <<store, nextId, now, awsService, s3, tts, calls, users, reg,
                http, upd, ttsPublished, everProcessing, deleted>>

\* The sendEvent calls that range over the map object a writer changes:
\* they read it with no lock held
Ranging(r) ==
    {g \in Senders : r.snd[g].pc \in {"ranging", "selected"}
                       /\ r.exists /\ r.snd[g].gen = r.gen}

\* AddClient under the write lock: the map of the ID is made if there is
\* none, and the channel is put in it
AddClient(r, ch) ==
    LET readers == Ranging(r)
    IN  [r EXCEPT
            !.exists = TRUE,
            !.gen = IF r.exists THEN @ ELSE @ + 1,
            !.inner = IF r.exists THEN @ \cup {ch} ELSE {ch},
            !.raced = @ \/ readers # {},
            !.snd = [g \in Senders |->
                        IF g \in readers
                        THEN [r.snd[g] EXCEPT !.fresh = @ \cup {ch},
                                              !.raced = TRUE]
                        ELSE r.snd[g]]]

\* RemoveClient under the write lock: the channel is deleted from the map of
\* the ID if there is one, the map is deleted when it is empty, and the
\* channel is closed; closing a closed channel panics
RemoveClient(r, ch) ==
    LET readers == Ranging(r)
        left == r.inner \ {ch}
    IN  [r EXCEPT
            !.inner = IF r.exists THEN left ELSE @,
            !.exists = r.exists /\ left # {},
            !.raced = @ \/ readers # {},
            !.snd = [g \in Senders |->
                        IF g \in readers
                        THEN [r.snd[g] EXCEPT
                                 !.stale = IF ch \in r.inner THEN @ \cup {ch}
                                           ELSE @,
                                 !.raced = TRUE]
                        ELSE r.snd[g]],
            !.chan[ch].closes = @ + 1,
            !.panicked = IF r.chan[ch].closes > 0
                         THEN "close of closed channel" ELSE @]

\* StreamHandler: the connection makes its channel and calls AddClient
Connect(ch) ==
    /\ sse.panicked = ""
    /\ sse.sub[ch] = "idle"
    /\ sse' = [AddClient(sse, ch) EXCEPT !.sub[ch] = "listening"]
    /\ last' = Step("connect")
    /\ RegistryOnly

\* StreamHandler: an event is taken from the channel and written out
Receive(ch) ==
    /\ sse.panicked = ""
    /\ sse.sub[ch] = "listening"
    /\ sse.chan[ch].buf > 0
    /\ sse' = [sse EXCEPT !.chan[ch].buf = @ - 1]
    /\ last' = Step("receive")
    /\ RegistryOnly

\* StreamHandler: the client is gone; RemoveClient, and the handler returns
Disconnect(ch) ==
    /\ sse.panicked = ""
    /\ sse.sub[ch] = "listening"
    /\ sse' = [RemoveClient(sse, ch) EXCEPT !.sub[ch] = "gone"]
    /\ last' = Step("disconnect")
    /\ RegistryOnly

\* sendEvent: the map of the ID is looked up under the read lock, which is
\* released before the loop
SendEventLookup(g) ==
    /\ sse.panicked = ""
    /\ sse.snd[g].pc = "idle"
    /\ sse' = [sse EXCEPT
                  !.snd[g] = IF sse.exists
                             THEN [NoSend EXCEPT !.pc = "ranging",
                                                 !.gen = sse.gen]
                             ELSE NoSend]
    /\ last' = Step("sendEvent")
    /\ RegistryOnly

\* The channels the loop has to come to, and those it may come to: a
\* channel put in the map during the loop may be produced or skipped, and
\* one deleted during the loop may have been read before the delete
Due(r, g) ==
    IF r.exists /\ r.snd[g].gen = r.gen
    THEN r.inner \ (r.snd[g].visited \cup r.snd[g].fresh)
    ELSE {}

Possible(r, g) ==
    (Due(r, g) \cup r.snd[g].stale
        \cup (IF r.exists /\ r.snd[g].gen = r.gen
              THEN r.inner \cap r.snd[g].fresh ELSE {}))
        \ r.snd[g].visited

\* sendEvent: the range loop produces the next channel
RangeNext(g, ch) ==
    /\ sse.panicked = ""
    /\ sse.snd[g].pc = "ranging"
    /\ ch \in Possible(sse, g)
    /\ sse' = [sse EXCEPT !.snd[g].pc = "selected", !.snd[g].ch = ch]
    /\ last' = Step("range")
    /\ RegistryOnly

\* sendEvent: the range loop ends
RangeDone(g) ==
    /\ sse.panicked = ""
    /\ sse.snd[g].pc = "ranging"
    /\ Due(sse, g) = {}
    /\ sse' = [sse EXCEPT !.snd[g] = NoSend]
    /\ last' = Step("rangeDone")
    /\ RegistryOnly

\* The runtime finds the map written during the iteration and throws
RangeThrow(g) ==
    /\ sse.panicked = ""
    /\ sse.snd[g].pc = "ranging"
    /\ sse.snd[g].raced
    /\ sse' = [sse EXCEPT
                  !.panicked = "concurrent map iteration and map write"]
    /\ last' = Step("throw")
    /\ RegistryOnly

\* sendEvent: the select.  A send on a closed channel panics; a channel
\* with room takes the event; for a full one RemoveClient is started in a
\* goroutine of its own
SelectSend(g) ==
    /\ sse.panicked = ""
    /\ sse.snd[g].pc = "selected"
    /\ \/ sse.chan[sse.snd[g].ch].closes > 0
       \/ sse.chan[sse.snd[g].ch].buf < ChanCap
       \/ sse.pending[sse.snd[g].ch] < MaxPending
    /\ LET ch == sse.snd[g].ch
           next == [sse.snd[g] EXCEPT !.pc = "ranging", !.ch = 0,
                                      !.visited = @ \cup {ch}]
       IN  sse' = IF sse.chan[ch].closes > 0
                  THEN [sse EXCEPT !.sentOnClosed = TRUE,
                                   !.panicked = "send on closed channel"]
                  ELSE IF sse.chan[ch].buf < ChanCap
                  THEN [sse EXCEPT !.chan[ch].buf = @ + 1, !.snd[g] = next]
                  ELSE [sse EXCEPT !.pending[ch] = @ + 1, !.snd[g] = next]
    /\ last' = Step("select")
    /\ RegistryOnly

\* A goroutine started by sendEvent runs RemoveClient
GoRemoveClient(ch) ==
    /\ sse.panicked = ""
    /\ sse.pending[ch] > 0
    /\ sse' = [RemoveClient(sse, ch) EXCEPT !.pending[ch] = @ - 1]
    /\ last' = Step("goRemoveClient")
    /\ RegistryOnly

NextStream ==
    \/ \E ch \in Subs : Connect(ch)
    \/ \E ch \in Subs : Receive(ch)
    \/ \E ch \in Subs : Disconnect(ch)
    \/ \E g \in Senders : SendEventLookup(g)
    \/ \E g \in Senders, ch \in Subs : RangeNext(g, ch)
    \/ \E g \in Senders : RangeDone(g)
    \/ \E g \in Senders : RangeThrow(g)
    \/ \E g \in Senders : SelectSend(g)
    \/ \E ch \in Subs : GoRemoveClient(ch)

SpecStream == Init /\ [][NextStream]_vars

\* The service called directly, with no HTTP exchange
Next ==
    \/ \E up \in CoreUploads, elapsed \in 0..1 :
           CreateAnnotationFromStream(up, elapsed) /\ UNCHANGED <<http, upd, sse>>
    \/ \E id \in Callable, req \in Patches :
           UpdateAnnotation(id, req) /\ UNCHANGED <<http, upd, sse>>
    \/ \E id \in Callable : DeleteAnnotation(id) /\ UNCHANGED <<http, upd, sse>>
    \/ \E p \in Procs, id \in Callable : StartSpeech(p, id) /\ UNCHANGED <<http, upd, sse>>
    \/ \E p \in Procs, answer \in {"ok", "polly fails", "s3 fails"} :
           PublishSpeech(p, answer) /\ UNCHANGED <<http, upd, sse>>
    \/ \E p \in Procs : StoreSpeechURL(p) /\ UNCHANGED <<http, upd, sse>>
    \/ Tick /\ UNCHANGED <<http, upd, sse>>

Spec == Init /\ [][Next]_vars

\* Uploads only, with every document, file type tag and reply
NextCreate ==
    \/ \E up \in Uploads, elapsed \in 0..1 :
           CreateAnnotationFromStream(up, elapsed) /\ UNCHANGED <<http, upd, sse>>
    \/ Tick /\ UNCHANGED <<http, upd, sse>>

SpecCreate == Init /\ [][NextCreate]_vars

\* The Authorization header carrying a token with the given claims
Bearer(claims) == <<"Bearer", " ">> \o SignedString(claims)

\* The claims of a token the server issued to uid at time t
IssuedAt(uid, t) ==
    [UserID |-> uid, ExpiresAt |-> t + TokenTTL, key |-> ServerKey]

\* The headers tried at time t.  Refused: none, another scheme, no token
\* behind the scheme, a forged signature, a token that expires at t, a token
\* of a user that is not stored.  Then the fresh tokens of the stored users.
BadHeaders(t) ==
    {<< >>,
     <<"Token", " ">> \o SignedString(IssuedAt("u1", t)),
     <<"Bearer", " ", "garbage">>,
     Bearer([IssuedAt("u1", t) EXCEPT !.key = "forged"]),
     Bearer([IssuedAt("u1", t) EXCEPT !.ExpiresAt = t]),
     Bearer(IssuedAt("u9", t))}

GoodHeaders(t) == {Bearer(IssuedAt(uid, t)) : uid \in {"u1", "u2", "u3"}}

Headers(t) == BadHeaders(t) \cup GoodHeaders(t)

\* The upload forms tried
Form(title, image, file, doc, reply, s3answer) ==
    [title |-> title, image |-> image, image_url |-> << >>, file |-> file,
     doc |-> doc, reply |-> reply, s3 |-> s3answer]

Forms ==
    {Form(<<"I", "n", "t", "r", "o">>, "none", ".pdf", DocCats, ReplyTagged, "ok"),
     Form(<<"I", "n", "t", "r", "o">>, "none", ".pdf", DocCats, ReplyTransport, "ok"),
     Form(<<"I", "n", "t", "r", "o">>, ".png", ".PDF", DocCats, ReplyTagged, "ok"),
     Form(<<"I", "n", "t", "r", "o">>, ".png", ".pdf", DocCats, ReplyTagged, "s3 fails"),
     Form(<<"I", "n", "t", "r", "o">>, ".png", ".docx", DocCats, ReplyTagged, "ok"),
     Form(<< >>, "none", ".pdf", DocCats, ReplyTagged, "ok")}

\* The PATCH bodies tried
Bodies ==
    {[kind |-> "json", req |-> Patch({}, {}, {NewText}, {})],
     [kind |-> "json", req |-> Patch({}, {}, {}, {})],
     [kind |-> "badjson"],
     [kind |-> "form", title |-> NewTitle, annotation |-> << >>,
      genre |-> << >>, image |-> ".png", s3 |-> "ok"]}

PlainForm ==
    Form(<<"I", "n", "t", "r", "o">>, "none", ".pdf", DocCats, ReplyTagged, "ok")

TransportForm ==
    Form(<<"I", "n", "t", "r", "o">>, "none", ".pdf", DocCats, ReplyTransport, "ok")

\* A request for the list with no query string
NoQuery ==
    [limit |-> {}, offset |-> {}, limitDenotes |-> {}, offsetDenotes |-> {}]

\* The callers: a reader and two editors, with tokens issued at time t
Reader(t) == Bearer(IssuedAt("u3", t))
Editor(t) == Bearer(IssuedAt("u1", t))
Editors(t) == {Bearer(IssuedAt(uid, t)) : uid \in {"u1", "u2"}}

\* The handlers behind the router, called by users the middleware lets
\* through, with every form and body
NextHTTP ==
    \/ Rejected(RouteProfile, << >>)
    \/ HandlerGetProfile(Reader(now))
    \/ HandlerGetAllAnnotations(Reader(now), NoQuery)
    \/ HandlerGetAnnotationStats(Editor(now))
    \/ \E id \in Callable : HandlerGetAnnotation(Reader(now), id)
    \/ \E id \in Callable : HandlerDownloadAudio(Reader(now), id)
    \/ \E form \in Forms :
           HandlerUploadAndCreateAnnotation(Editor(now), form, 0)
    \/ \E id \in Callable, body \in Bodies :
           HandlerUpdateAnnotation(Editor(now), id, body)
    \/ \E id \in Callable : HandlerDeleteAnnotation(Editor(now), id)
    \/ \E p \in Procs, id \in Callable :
           HandlerGenerateTTSForAnnotation(Editor(now), p, id)
    \/ \E p \in Procs, answer \in {"ok", "polly fails", "s3 fails"} :
           HandlerPublishSpeech(p, answer)
    \/ \E p \in Procs : HandlerStoreSpeechURL(p)
    \/ Tick /\ UNCHANGED <<http, upd, sse>>

SpecHTTP == Init /\ [][NextHTTP]_vars

\* The router with callers of every kind: every route is tried with every
\* header, with one form and one body, at the time the server starts (the
\* headers are made for the time of the request, so the clock adds no case)
NextGate ==
    \/ \E route \in ProtectedRoutes, h \in Headers(now) : Rejected(route, h)
    \/ \E h \in Headers(now) : HandlerGetProfile(h)
    \/ \E h \in Headers(now) : HandlerGetAllAnnotations(h, NoQuery)
    \/ \E h \in Headers(now) : HandlerGetAnnotationStats(h)
    \/ \E h \in Headers(now), id \in Callable : HandlerGetAnnotation(h, id)
    \/ \E h \in Headers(now), id \in Callable : HandlerDownloadAudio(h, id)
    \/ \E h \in Headers(now) :
           HandlerUploadAndCreateAnnotation(h, PlainForm, 0)
    \/ \E h \in Headers(now), id \in Callable :
           HandlerUpdateAnnotation(
               h, id, [kind |-> "json", req |-> Patch({}, {}, {NewText}, {})])
    \/ \E h \in Headers(now), id \in Callable : HandlerDeleteAnnotation(h, id)
    \/ \E h \in Headers(now), p \in Procs, id \in Callable :
           HandlerGenerateTTSForAnnotation(h, p, id)
    \/ \E p \in Procs : HandlerPublishSpeech(p, "ok")
    \/ \E p \in Procs : HandlerStoreSpeechURL(p)

SpecGate == Init /\ [][NextGate]_vars

\* The accounts asked for and the logins tried
Credentials(email, password) ==
    [Email |-> email, Password |-> password, Name |-> "Dan"]

RegisterRequests ==
    {Credentials("dan@x.io", "secret-dan"),
     Credentials("dan@x.io", "secret-two"),
     Credentials("ann@x.io", "secret-dan"),
     Credentials("nobody", "secret-dan"),
     Credentials("eve@x.io", "short")}

LoginRequests ==
    {Credentials("ann@x.io", "secret-ann"),
     Credentials("ann@x.io", "secret-dan"),
     Credentials("dan@x.io", "secret-dan"),
     Credentials("dan@x.io", "secret-two"),
     Credentials("zed@x.io", "secret-ann"),
     Credentials("nobody", "secret-ann")}

\* Registration and login, by clients that work at the same time
NextAuth ==
    \/ \E c \in Clients, req \in RegisterRequests : Register(c, req)
    \/ \E c \in Clients : RegisterInsertOne(c)
    \/ \E req \in LoginRequests : Login(req)
    \/ Tick /\ UNCHANGED <<http, upd, sse>>

SpecAuth == Init /\ [][NextAuth]_vars

\* The lines a response of the model is made of: a genre line, one with
\* spaces around it, one in lower case, a line of text, an empty line and a
\* line of one space
ResponseLines ==
    {<<"G", "E", "N", "R", "E", ":", " ", "E", "d">>,
     <<" ", "G", "E", "N", "R", "E", ":", "E", "d", " ">>,
     <<"g", "e", "n", "r", "e", ":", " ", "E", "d">>,
     <<"T", "e", "x", "t">>,
     << >>,
     <<" ">>}

\* The responses of one to MaxLines lines
Responses ==
    {Join(ls, "\n") :
        ls \in UNION {[1..n -> ResponseLines] : n \in 1..MaxLines}}

\* parseAnnotationResponse called once, on a response
ParseResponse(response) ==
    /\ last.op # "parse"
    /\ last' = Returned("parse", "", response, << >>,
                        {parseAnnotationResponse(response)}, {}, 0)
    /\ UNCHANGED <<store, nextId, now, awsService, s3, tts, calls, users, reg,
                   http, upd, sse, ttsPublished, everProcessing, deleted>>

NextParse == \E response \in Responses : ParseResponse(response)

SpecParse == Init /\ [][NextParse]_vars

\* A page whose text GetPlainText cannot read
UnreadablePage == [kind |-> "unreadable", text |-> << >>]

\* The pages tried: no page object, unreadable, no text, blanks only, text
PageKinds ==
    {NullPage, UnreadablePage, TextPage(<< >>), TextPage(<<" ", "\n">>),
     TextPage(<<"B">>)}

\* The PDF files tried: every sequence of up to MaxPages such pages
PagedDocs ==
    {[readable |-> TRUE, parsable |-> TRUE, pages |-> ps] :
        ps \in UNION {[1..n -> PageKinds] : n \in 0..MaxPages}}

\* ExtractTextFromReader called once, on a PDF file
ExtractText(doc) ==
    /\ last.op # "extract"
    /\ LET got == ExtractTextFromReader(doc)
       IN  last' = Returned("extract", "", doc, got.err, {got.text}, {}, 0)
    /\ UNCHANGED <<store, nextId, now, awsService, s3, tts, calls, users, reg,
                   http, upd, sse, ttsPublished, everProcessing, deleted>>

NextExtract == \E doc \in PagedDocs : ExtractText(doc)

SpecExtract == Init /\ [][NextExtract]_vars

\* The query strings tried on GET /annotations.  Each value comes with the
\* number it is the decimal notation of, if any (denotes).
QueryValue(text, denotes) == [text |-> text, denotes |-> denotes]

NoValue == QueryValue({}, {})

LimitValues ==
    {NoValue,
     QueryValue({<<"1">>}, {1}),
     QueryValue({<<"2">>}, {2}),
     QueryValue({<<"1", "2">>}, {12}),
     QueryValue({<<"0">>}, {0}),
     QueryValue({<<"-", "1">>}, {-1}),
     QueryValue({<<"a", "l", "l">>}, {}),
     QueryValue({<<"1", "x">>}, {}),
     QueryValue({<< >>}, {})}

OffsetValues ==
    {NoValue,
     QueryValue({<<"0">>}, {0}),
     QueryValue({<<"1">>}, {1}),
     QueryValue({<<"3">>}, {3}),
     QueryValue({<<"-", "1">>}, {-1}),
     QueryValue({<<"x">>}, {})}

Query(l, o) ==
    [limit |-> l.text, offset |-> o.text, limitDenotes |-> l.denotes,
     offsetDenotes |-> o.denotes]

\* Every limit with no offset, every offset with no limit, and the windows
\* of one and two documents after the first
Queries ==
    {Query(l, NoValue) : l \in LimitValues}
        \cup {Query(NoValue, o) : o \in OffsetValues}
        \cup {Query(l, QueryValue({<<"1">>}, {1})) :
                 l \in {QueryValue({<<"1">>}, {1}), QueryValue({<<"2">>}, {2})}}

\* Editors upload documents, the model server answers or not, and the list
\* and the statistics are asked for
NextRead ==
    \/ \E h \in Editors(now), form \in {PlainForm, TransportForm} :
           HandlerUploadAndCreateAnnotation(h, form, 0)
    \/ \E query \in Queries : HandlerGetAllAnnotations(Reader(now), query)
    \/ \E h \in Editors(now) : HandlerGetAnnotationStats(h)
    \/ Tick /\ UNCHANGED <<http, upd, sse>>

SpecRead == Init /\ [][NextRead]_vars

\* Clients that update and delete the documents at the same time
NextUpdates ==
    \/ \E up \in {u \in CoreUploads : u.reply = ReplyTagged} :
           CreateAnnotationFromStream(up, 0) /\ UNCHANGED <<http, upd, sse>>
    \/ \E c \in Clients, id \in Callable, req \in Patches :
           UpdateOne(c, id, req)
    \/ \E c \in Clients : UpdateReadBack(c)
    \/ \E id \in Callable : DeleteAnnotation(id) /\ UNCHANGED <<http, upd, sse>>
    \/ Tick /\ UNCHANGED <<http, upd, sse>>

SpecUpdates == Init /\ [][NextUpdates]_vars

----------------------------------------------------------------------------
(* Properties *)

\* What the extractor answers for an upload
ExtractionOf(up) == extractTextFromStream(up.doc, up.fileType)

\* The generator fails on a reply: no 200 reply with JSON, or blank output
GeneratorFails(reply) ==
    \/ reply.kind # "ok"
    \/ \A i \in DOMAIN reply.response : IsSpace(reply.response[i])

\* The error the generator returns for an upload
GeneratorErrorOf(up) == GenerateAnnotationWithGenre(up.reply).err

\* The last call inserted exactly the document last.id and touched no other
InsertedOne ==
    /\ last.id \notin DOMAIN last.before
    /\ DOMAIN store = DOMAIN last.before \cup {last.id}
    /\ \A id \in DOMAIN last.before : store[id] = last.before[id]

\* The text before the first line break of s
LeadingLine(s) ==
    LET breaks == {i \in DOMAIN s : s[i] = "\n"}
    IN  IF breaks = {} THEN s
        ELSE SubSeq(s, 1, (CHOOSE i \in breaks : \A j \in breaks : i <= j) - 1)

\* The genre a model output announces: the label of its leading GENRE: line,
\* "Other" without one
AnnouncedGenre(response) ==
    LET line == TrimSpace(LeadingLine(TrimSpace(response)))
    IN  IF Len(line) >= 6 /\ SubSeq(line, 1, 6) = GenrePrefix
        THEN TrimSpace(SubSeq(line, 7, Len(line)))
        ELSE DefaultGenre

\* C1: when the extractor fails during createAnnotation, the caller gets an
\* error and a new document with status failed that carries the extractor's
\* error text is in the store.
C1_ExtractorFailureStored ==
    (last.op = "create" /\ ExtractionOf(last.in).err # << >>) =>
        /\ last.err # << >>
        /\ \E id \in DOMAIN store \ DOMAIN last.before :
              /\ store[id].Status = "failed"
              /\ Contains(store[id].ErrorMessage, ExtractionOf(last.in).err)

C3_CompletedHasContent ==
    \A id \in DOMAIN store :
        store[id].Status = "completed" =>
            store[id].Annotation # << >> /\ store[id].Genre # << >>

\* C4: when extraction succeeds and the generator fails, createAnnotation
\* returns an error and inserts exactly one document: status failed, the
\* generator's error text inside error_message, annotation and genre empty.
C4_GeneratorFailureStored ==
    (/\ last.op = "create"
     /\ ExtractionOf(last.in).err = << >>
     /\ GeneratorFails(last.in.reply)) =>
        /\ last.err # << >>
        /\ last.ret = {}
        /\ InsertedOne
        /\ store[last.id].Status = "failed"
        /\ GeneratorErrorOf(last.in) # << >>
        /\ Contains(store[last.id].ErrorMessage, GeneratorErrorOf(last.in))
        /\ store[last.id].Annotation = << >>
        /\ store[last.id].Genre = << >>

C4_Witness ==
    /\ last.op = "create"
    /\ ExtractionOf(last.in).err = << >>
    /\ last.in.reply = ReplyBlank
    /\ last.id \in DOMAIN store
    /\ last.before # << >>

\* C5: when extraction and generation succeed, createAnnotation inserts
\* exactly one document and returns it: status completed, text_content the
\* extracted text, user_id the caller, annotation the parsed output, genre
\* the label of the leading GENRE: line, "Other" without one.
C5_SuccessStored ==
    (/\ last.op = "create"
     /\ ExtractionOf(last.in).err = << >>
     /\ ~GeneratorFails(last.in.reply)) =>
        /\ last.err = << >>
        /\ InsertedOne
        /\ last.ret = {store[last.id]}
        /\ store[last.id].Status = "completed"
        /\ store[last.id].TextContent = ExtractionOf(last.in).text
        /\ store[last.id].TextContent # << >>
        /\ store[last.id].UserID = last.in.userID
        /\ store[last.id].Genre = AnnouncedGenre(last.in.reply.response)
        /\ store[last.id].Annotation =
               GenerateAnnotationWithGenre(last.in.reply).Annotation

C5_Witness ==
    /\ last.op = "create"
    /\ last.in.reply = ReplyUntagged
    /\ last.in.userID = "u2"
    /\ last.ret # {}
    /\ store[last.id].Genre = DefaultGenre
    /\ \E id \in DOMAIN last.before : last.before[id].Genre = <<"E", "d">>

\* C6: a stored document has an error message if and only if its status is
\* failed.
C6_ErrorIffFailed ==
    \A id \in DOMAIN store :
        (store[id].ErrorMessage # << >>) <=> (store[id].Status = "failed")

C6_Witness ==
    /\ last.op = "update"
    /\ last.err = << >>
    /\ store[last.id].Status = "failed"
    /\ \E id \in DOMAIN store : store[id].Status = "completed"

\* C7: no step changes the status of a stored document that is failed or
\* completed, and every stored status is processing, completed or failed.
C7_StatusIsFinal ==
    [][/\ \A id \in DOMAIN store \cap DOMAIN store' :
             store[id].Status \in {"failed", "completed"} =>
                 store'[id].Status = store[id].Status
       /\ \A id \in DOMAIN store' :
             store'[id].Status \in {"processing", "completed", "failed"}]_vars

C7_Witness ==
    /\ last.op = "tts"
    /\ last.err = << >>
    /\ store[last.id].Status = "failed"
    /\ store[last.id].TTSURL # << >>

\* C8: a stored audio URL is non-empty only if a generateSpeech call for that
\* ID synthesized and published before; createAnnotation and updateAnnotation
\* store no audio URL and change none.
C8_AudioOnlyFromSpeech ==
    /\ \A id \in DOMAIN store :
          store[id].TTSURL # << >> => id \in ttsPublished
    /\ last.op \in {"create", "update"} =>
          \A id \in DOMAIN store :
              store[id].TTSURL = IF id \in DOMAIN last.before
                                 THEN last.before[id].TTSURL
                                 ELSE << >>

C8_Witness ==
    /\ last.op = "update"
    /\ last.err = << >>
    /\ last.in.Image # {}
    /\ store[last.id].TTSURL # << >>

\* C9: generateSpeech for a document with empty annotation text fails with
\* "annotation text is empty", whether or not an AWS service is configured,
\* and for an ID with no document with "annotation not found"; either way
\* it calls neither Polly nor S3 and leaves the store as it was.
C9_EmptyBodyFirst ==
    last.op = "tts" =>
        /\ last.awsCalls = 0 =>
              last.seen = GetAnnotationByID(last.before, last.id).ret
        /\ last.seen = {} =>
              /\ last.err = ErrNotFound
              /\ last.awsCalls = 0
              /\ store = last.before
        /\ (\E doc \in last.seen : doc.Annotation = << >>) =>
              /\ last.err = <<"annotation text is empty">>
              /\ last.awsCalls = 0
              /\ store = last.before

C9_Witness ==
    /\ last.op = "tts"
    /\ ~awsService
    /\ \E doc \in last.seen : doc.Annotation = << >>
    /\ last.err = <<"annotation text is empty">>

\* C10: every generateSpeech call that publishes audio uses a key under
\* which no other call has published.
C10_FreshKey ==
    [][\A p \in Procs :
          (tts[p].pc = "fetched" /\ tts'[p].pc = "published") =>
              tts'[p].key \notin DOMAIN s3]_vars

\* The fields a patch may name, and the fields no patch names
PatchableFields == {"Title", "Image", "Annotation", "Genre"}
FixedFields ==
    {"ID", "UserID", "SourceFile", "SourceType", "TextContent", "TTSURL",
     "Status", "ErrorMessage", "CreatedAt"}

\* C11: updateAnnotation on a stored document sets each of title, image,
\* annotation and genre that the patch names to the patch's value, sets
\* updated_at to the time of the call (never earlier than the stored value)
\* also when the patch is empty, and leaves every other field, every other
\* document and the fields the patch does not name as they were; it returns
\* the document as stored.
C11_PatchApplied ==
    (last.op = "update" /\ last.id \in DOMAIN last.before) =>
        /\ last.err = << >>
        /\ DOMAIN store = DOMAIN last.before
        /\ \A id \in DOMAIN store \ {last.id} : store[id] = last.before[id]
        /\ \A f \in PatchableFields :
              /\ last.in[f] = {} => store[last.id][f] = last.before[last.id][f]
              /\ last.in[f] # {} => store[last.id][f] \in last.in[f]
        /\ \A f \in FixedFields : store[last.id][f] = last.before[last.id][f]
        /\ store[last.id].UpdatedAt = now
        /\ store[last.id].UpdatedAt >= last.before[last.id].UpdatedAt
        /\ last.ret = {store[last.id]}

C11_Witness ==
    /\ last.op = "update"
    /\ last.id \in DOMAIN last.before
    /\ last.in = Patch({}, {}, {}, {})
    /\ store[last.id].UpdatedAt > last.before[last.id].UpdatedAt
    /\ store[last.id].TextContent # << >>

\* C12: deleteAnnotation on an ID with no stored document fails with
\* "annotation not found" (answered with 404) and leaves the store as it
\* was; on a stored document it succeeds and removes that document and no
\* other; a deleted ID is never stored again, so a second delete of it fails
\* with "annotation not found".
C12_DeleteOnce ==
    /\ deleted \cap DOMAIN store = {}
    /\ last.op = "delete" =>
          IF last.id \in DOMAIN last.before
          THEN /\ last.err = << >>
               /\ DeleteStatus(last.err) = 200
               /\ DOMAIN store = DOMAIN last.before \ {last.id}
               /\ \A id \in DOMAIN store : store[id] = last.before[id]
               /\ last.id \in deleted
          ELSE /\ last.err = ErrNotFound
               /\ DeleteStatus(last.err) = 404
               /\ store = last.before

C12_Witness ==
    /\ last.op = "delete"
    /\ last.id \in deleted
    /\ last.err = ErrNotFound
    /\ DOMAIN last.before = {}

\* C13: no two stored users have the same email, whatever the interleaving
\* of Register calls.
C13_UniqueEmails ==
    \A a, b \in DOMAIN users : a # b => users[a].Email # users[b].Email

\* Whether a login request names no stored user, and whether it names one
\* with another password
UnknownEmail(req) == ByEmail(users, req.Email) = {}
WrongPassword(req) ==
    /\ ByEmail(users, req.Email) # {}
    /\ \A id \in ByEmail(users, req.Email) :
          ~CompareHashAndPassword(users[id].Password, req.Password)

\* What a login request is answered with: the error of the service and
\* the response of the handler, for every user FindOne may come back with
LoginAnswers(req) ==
    {[err |-> LoginOutcome(users, req, found, now).err,
      ret |-> LoginOutcome(users, req, found, now).ret,
      response |-> LoginResponse(LoginOutcome(users, req, found, now))] :
        found \in FindOneByEmail(users, req.Email)}

\* C14: a login with an email no user has and a login with a stored email
\* and a wrong password get the same error value and the same response
\* (status 401, same message, same error text), and no token.
C14_SameRefusal ==
    /\ \A r1, r2 \in {r \in LoginRequests : BindsLogin(r)} :
          (UnknownEmail(r1) /\ WrongPassword(r2)) =>
              /\ LoginAnswers(r1) = LoginAnswers(r2)
              /\ \A a \in LoginAnswers(r1) :
                    a.response.status = 401 /\ a.ret = {}
    /\ (/\ last.op = "login"
        /\ UnknownEmail(last.in) \/ WrongPassword(last.in)) =>
          /\ last.err = ErrInvalidLogin
          /\ last.ret = {}
          /\ http = Exchange(RouteLogin, << >>, TRUE, 401, "Login failed",
                             ErrInvalidLogin)

C14_Witness ==
    /\ last.op = "login"
    /\ last.in = Credentials("dan@x.io", "secret-two")
    /\ WrongPassword(last.in)
    /\ UnknownEmail(Credentials("zed@x.io", "secret-ann"))
    /\ http.status = 401

\* What a request that the server did not act on leaves as it was
Untouched ==
    UNCHANGED <<store, nextId, now, awsService, s3, tts, users, reg,
                ttsPublished, everProcessing, deleted>>

\* A step in which a request arrives at the given routes
Arrives(routes) ==
    /\ calls' # calls
    /\ http'.phase = "arrival"
    /\ http'.route \in routes

\* C15: every request to /auth/profile or to an /annotations route that has
\* no Authorization header, a header that is not "Bearer <token>", a token
\* that fails validation (malformed, forged or expired) or a token of a user
\* that is not stored is answered with 401, the handler of the route does
\* not run, and no state changes.
C15_Unauthenticated ==
    [][(Arrives(ProtectedRoutes) /\ http'.header \in BadHeaders(now)) =>
           /\ http'.status = 401
           /\ ~http'.ran
           /\ Untouched]_vars

C15_Witness ==
    /\ http.phase = "arrival"
    /\ http.route = RouteDelete
    /\ http.header = Bearer([IssuedAt("u1", now) EXCEPT !.ExpiresAt = now])
    /\ http.status = 401
    /\ http.message = "Invalid or expired token"
    /\ ~http.ran
    /\ DOMAIN store # {}

\* The stored users whose fresh token a header carries
Callers(authHeader, t) ==
    {uid \in DOMAIN users : authHeader = Bearer(IssuedAt(uid, t))}

\* C16: a request to the upload, stats, PATCH, DELETE or TTS route by an
\* authenticated user whose role is not "content" is answered with 403, the
\* handler does not run and no state changes; an update or a delete of a
\* stored record by a user with role "content" succeeds whoever created the
\* record.
C16_RoleBased ==
    [][\A uid \in Callers(http'.header, now) :
          /\ (Arrives(CreatorRoutes) /\ users[uid].Role # "content") =>
                /\ http'.status = 403
                /\ ~http'.ran
                /\ Untouched
          /\ (/\ Arrives({RoutePatch, RouteDelete})
              /\ users[uid].Role = "content"
              /\ last'.id \in DOMAIN store) =>
                /\ http'.ran
                /\ http'.status = 200
                /\ last'.err = << >>
                /\ http'.route = RouteDelete => last'.id \notin DOMAIN store'
                /\ http'.route = RoutePatch =>
                      store'[last'.id].Annotation = NewText]_vars

C16_Witness ==
    /\ http.phase = "arrival"
    /\ http.route = RoutePatch
    /\ http.header = Bearer(IssuedAt("u2", now))
    /\ http.status = 200
    /\ last.op = "update"
    /\ last.id \in DOMAIN store
    /\ store[last.id].UserID = "u1"
    /\ store[last.id].Annotation = NewText

\* Whether a response is not blank, its first line trimmed, and whether
\* that line starts with the prefix
NonBlank(response) == TrimSpace(response) # << >>
FirstLine(response) == TrimSpace(Split(response, "\n")[1])
Tagged(response) == HasPrefix(FirstLine(response), GenrePrefix)

\* The lines after the first, joined again and trimmed
RemainingLines(response) ==
    TrimSpace(Join(Tail(Split(response, "\n")), "\n"))

C18_DefaultGenre ==
    (last.op = "parse" /\ NonBlank(last.in) /\ ~Tagged(last.in)) =>
        /\ last.err = << >>
        /\ last.ret = {[Genre |-> DefaultGenre, Annotation |-> last.in]}

C18_Witness ==
    /\ last.op = "parse"
    /\ last.in = Join(<<<<"g", "e", "n", "r", "e", ":", " ", "E", "d">>,
                        <<"G", "E", "N", "R", "E", ":", " ", "E", "d">>,
                        <<"T", "e", "x", "t">>>>, "\n")
    /\ ~Tagged(last.in)
    /\ last.ret = {[Genre |-> DefaultGenre, Annotation |-> last.in]}

\* Whether an error says that the model server, Polly or S3 could not be
\* reached or that the AWS service is not configured
BackendUnavailable(err) ==
    \/ Contains(err, <<"failed to make request to Ollama: ">>)
    \/ Contains(err, <<"failed to synthesize speech: ">>)
    \/ Contains(err, <<"failed to upload to S3: ">>)
    \/ Contains(err, <<"not configured">>)

\* C19: a request that fails because the model server is unreachable during
\* an upload, or because the speech or storage backend is unreachable or not
\* configured during speech generation or an image upload, is answered with
\* 503; 500 is the answer to no such failure.
C19_Unavailable503 ==
    (http.status # 0 /\ BackendUnavailable(http.error)) => http.status = 503

\* C20: an update of an ID with no stored record fails with "annotation not
\* found", is answered with 404 and leaves the store as it was: no record
\* is created for that ID.
C20_UpdateNotFound ==
    (last.op = "update" /\ last.id \notin DOMAIN last.before) =>
        /\ last.err = ErrNotFound
        /\ last.ret = {}
        /\ http.route = RoutePatch
        /\ http.status = 404
        /\ store = last.before
        /\ last.id \notin DOMAIN store

C20_Witness ==
    /\ last.op = "update"
    /\ last.id \notin DOMAIN last.before
    /\ last.in = Patch({}, {}, {NewText}, {})
    /\ http.status = 404
    /\ DOMAIN store # {}

\* The limit and the offset a query asks for: the number its text denotes,
\* 10 for a limit that is missing, no number or not positive, 0 for an
\* offset that is missing, no number or negative
AskedLimit(query) ==
    IF \E n \in query.limitDenotes : n > 0
    THEN CHOOSE n \in query.limitDenotes : TRUE ELSE 10

AskedOffset(query) ==
    IF \E n \in query.offsetDenotes : n >= 0
    THEN CHOOSE n \in query.offsetDenotes : TRUE ELSE 0

\* Whether a list is the documents of coll from the one after the first
\* offset, at most limit of them, newest first
IsPage(list, coll, limit, offset) ==
    LET n == Cardinality(DOMAIN coll)
        rest == IF n > offset THEN n - offset ELSE 0
        listed == {list[i].ID : i \in 1..Len(list)}
    IN  /\ Len(list) = IF limit < rest THEN limit ELSE rest
        /\ \A i \in 1..Len(list) :
              list[i].ID \in DOMAIN coll /\ list[i] = coll[list[i].ID]
        /\ \A i, j \in 1..Len(list) :
              i < j => /\ list[i].ID # list[j].ID
                       /\ list[i].CreatedAt >= list[j].CreatedAt
        /\ \E skipped \in SUBSET (DOMAIN coll \ listed) :
              /\ Cardinality(skipped) = IF offset < n THEN offset ELSE n
              /\ \A a \in skipped, b \in listed :
                    coll[a].CreatedAt >= coll[b].CreatedAt
              /\ \A a \in skipped \cup listed,
                    b \in DOMAIN coll \ (skipped \cup listed) :
                    coll[a].CreatedAt >= coll[b].CreatedAt

\* C21: the list is the stored documents of all owners, newest first,
\* without the first offset of them and at most limit long; a limit that is
\* missing, not a number or not positive counts as 10, an offset that is
\* missing, not a number or negative as 0; the store is left as it was.
C21_ListPage ==
    last.op = "list" =>
        /\ last.in.limit = AskedLimit(last.in.query)
        /\ last.in.offset = AskedOffset(last.in.query)
        /\ store = last.before
        /\ \A list \in last.ret :
              IsPage(list, store, AskedLimit(last.in.query),
                     AskedOffset(last.in.query))

C21_Witness ==
    /\ last.op = "list"
    /\ last.in.query.limit = {<<"1">>}
    /\ last.in.query.offset = {<<"1">>}
    /\ Cardinality(DOMAIN store) = 2
    /\ \E a, b \in DOMAIN store :
          /\ store[a].UserID # store[b].UserID
          /\ store[a].CreatedAt < store[b].CreatedAt
          /\ last.ret = {<<store[a]>>}

\* The stored documents of an owner with a status
OwnedWith(owner, status) ==
    {id \in DOMAIN store :
        store[id].UserID = owner /\ store[id].Status = status}

\* C22: the statistics of an owner hold, for each of processing, completed
\* and failed, the number of stored documents of that owner with that
\* status, and a total that is the sum of the three and the number of the
\* owner's stored documents; documents of other owners are not counted.
C22_StatsOfOwner ==
    last.op = "stats" =>
        \A stats \in last.ret :
            /\ DOMAIN stats = {"total", "processing", "completed", "failed"}
            /\ \A status \in {"processing", "completed", "failed"} :
                  stats[status] = Cardinality(OwnedWith(last.id, status))
            /\ stats["total"] = stats["processing"] + stats["completed"]
                                    + stats["failed"]
            /\ stats["total"] =
                   Cardinality({id \in DOMAIN store :
                                   store[id].UserID = last.id})

C22_Witness ==
    /\ last.op = "stats"
    /\ last.id = "u1"
    /\ \E stats \in last.ret : stats["failed"] = 1 /\ stats["total"] = 1
    /\ \E id \in DOMAIN store :
          store[id].UserID = "u2" /\ store[id].Status = "completed"

\* C29: every subscriber channel is closed at most once, whatever the order
\* of the RemoveClient calls that sendEvent starts for a full channel and
\* the one the StreamHandler makes when its client is gone.
C29_ClosedOnce ==
    \A ch \in Subs : sse.chan[ch].closes <= 1

\* C30: sendEvent never sends on a channel that RemoveClient has closed, and
\* no AddClient or RemoveClient writes the map of the ID while a sendEvent
\* ranges over it.
C30_SendSafe ==
    /\ ~sse.sentOnClosed
    /\ ~sse.raced

\* Two calls in flight on one stored document whose writes were the last
\* two calls made, first then second
WroteInTurn(first, second) ==
    /\ upd[first].pc = "written"
    /\ upd[second].pc = "written"
    /\ upd[first].id = upd[second].id
    /\ upd[first].id \in DOMAIN store
    /\ upd[second].at = upd[first].at + 1
    /\ calls = upd[second].at

\* C23: of two updateAnnotation calls in flight on the same stored document
\* neither write is lost: a field both patches name holds the value of the
\* patch written last, a field only one patch names holds that patch's
\* value, and the fields no patch can name are as the first write left
\* them.
C23_NoLostUpdate ==
    \A first, second \in Clients :
        WroteInTurn(first, second) =>
            \A f \in PatchableFields :
                /\ upd[second].req[f] # {} =>
                       store[upd[first].id][f] \in upd[second].req[f]
                /\ (upd[second].req[f] = {} /\ upd[first].req[f] # {}) =>
                       store[upd[first].id][f] \in upd[first].req[f]

C23_Witness ==
    \E first, second \in Clients :
        /\ WroteInTurn(first, second)
        /\ upd[first].req = Patch({NewTitle}, {NewImage}, {NewText}, {NewGenre})
        /\ upd[second].req = Patch({}, {}, {<< >>}, {})
        /\ store[upd[first].id].Title = NewTitle
        /\ store[upd[first].id].Annotation = << >>

\* A step that is a deleteAnnotation call
DeleteStep == calls' # calls /\ last'.op = "delete"

\* C24: deleteAnnotation removes at most the document it names and nothing
\* else: the objects published to S3 (audio and images) are the same before
\* and after the call, also when the deleted document held an audio URL or
\* an image URL, and an audio publication in flight is not disturbed.
C24_DeleteKeepsAssets ==
    [][DeleteStep =>
          /\ s3' = s3
          /\ tts' = tts
          /\ ttsPublished' = ttsPublished
          /\ DOMAIN store' = DOMAIN store \ {last'.id}
          /\ \A id \in DOMAIN store' : store'[id] = store[id]]_vars

\* A document whose audio is published and stored was deleted, and the audio
\* is still in S3
C24_Witness ==
    /\ last.op = "delete"
    /\ last.err = << >>
    /\ last.id \in DOMAIN last.before
    /\ last.id \notin DOMAIN store
    /\ last.before[last.id].TTSURL # << >>
    /\ \E key \in DOMAIN s3 : S3URL(key) = last.before[last.id].TTSURL

\* The generateSpeech call that returned last had its audio put into S3
PublishedAudio ==
    /\ last.op = "tts"
    /\ last.awsCalls = 2
    /\ ~Contains(last.err, <<"failed to generate TTS: ">>)

\* C25: with deleteAnnotation running at the same time on the same ID, a
\* generateSpeech call that returns "annotation not found" has called
\* neither Polly nor S3, and a call whose audio was put into S3 leaves a
\* stored document whose tts_url is the URL of an object in S3.
C25_SpeechVersusDelete ==
    /\ (last.op = "tts" /\ last.err = ErrNotFound) => last.awsCalls = 0
    /\ PublishedAudio =>
          /\ last.id \in DOMAIN store
          /\ \E key \in DOMAIN s3 : store[last.id].TTSURL = S3URL(key)

\* C26: when generateSpeech returns without error, the object its stored
\* tts_url points to is the speech of the annotation text the document
\* holds when the URL is written, whatever updateAnnotation calls ran in
\* between.
C26_AudioOfStoredText ==
    (PublishedAudio /\ last.err = << >>) =>
        /\ last.id \in DOMAIN store
        /\ \E key \in DOMAIN s3 :
              /\ S3URL(key) = store[last.id].TTSURL
              /\ s3[key] = Speech(store[last.id].Annotation)

\* A step in which the upload handler answers 400 because of the document
RejectedForDocument ==
    /\ calls' # calls
    /\ http'.route = RouteUpload
    /\ http'.ran
    /\ http'.status = 400
    /\ http'.message \in {"File is required", "Only PDF files are supported"}

\* C27: an upload request answered with 400 because the document file is
\* missing or is not a .pdf file has no effect: no object is put into S3 and
\* no document is stored.
C27_RejectedUploadNoEffect ==
    [][RejectedForDocument => s3' = s3 /\ store' = store]_vars

\* The page has a text that is not blank
YieldsText(page) ==
    page.kind = "text" /\ cleanExtractedText(page.text) # << >>

\* How a page marker begins once the text is cleaned
MarkerStart == <<"-", "-", "-", " ", "P", "a", "g", "e", " ">>

\* C28: extracting a PDF file of which no page has text fails with "no text
\* content found in PDF", for any number of pages, and a text that is
\* returned does not begin with a page marker: markers stand only between
\* the texts of two pages.
C28_MarkersOnlyBetween ==
    last.op = "extract" =>
        /\ (\A i \in DOMAIN last.in.pages : ~YieldsText(last.in.pages[i])) =>
               last.err = <<"no text content found in PDF">>
        /\ \A text \in last.ret : ~HasPrefix(text, MarkerStart)

====
